---- MODULE Spec2Model ----
(***************************************************************************)
(* hive: task registry (lib/tasks.ts), worktree manager (lib/git.ts) and   *)
(* the commands that drive them (merge, new, drop, interactive).           *)
(*                                                                         *)
(* Strings that the code inspects character by character (the slug, which  *)
(* validateTask matches against /^[a-z0-9-]+$/) are sequences of one-      *)
(* character strings; the empty string is <<>> or "".  Paths and branch    *)
(* names are sequences of their pieces.                                    *)
(***************************************************************************)
EXTENDS Integers, Sequences, FiniteSets, TLC

VARIABLES
    storedTasks,   \* .hive/tasks.json: the list under the key "tasks"
    last,          \* the registry call made last, its arguments and outcome
    worktrees,     \* slugs s with a working copy at <repoRoot>/.worktrees/s
    branches,      \* slugs s with a local branch hive/s
    dirty,         \* slugs whose working copy has uncommitted changes
    commits,       \* slug -> files changed by the commits of hive/<slug>
    targetSince,   \* slug -> files changed on the target since hive/<slug> forked
    mergedInto,    \* slugs whose branch has been merged into the target
    mergeHead,     \* main working copy: the branch being merged (MERGE_HEAD)
    conflicted,    \* main working copy: the unmerged paths (status.conflicted)
    mc,            \* the running merge command: props, React state, position
    files,         \* .hive/tasks.json and .hive/tasks.json.tmp on disk
    procs,         \* the processes running a registry operation step by step
    repo,          \* the repository's remotes, remote and local branches, HEAD
    args,          \* the arguments of the analysis function called next
    cmd            \* the running drop or clean command: props, React state, position

vars == <<storedTasks, last, worktrees, branches, dirty, commits, targetSince,
          mergedInto, mergeHead, conflicted, mc, files, procs, repo, args, cmd>>

diskVars == <<files, procs>>

gitVars == <<worktrees, branches, dirty, commits, targetSince, mergedInto,
             mergeHead, conflicted>>

-----------------------------------------------------------------------------
(* Bounds of the model *)

\* the registry is not grown beyond this many records
MaxTasks == 2

\* a process runs at most this many registry operations
MaxCalls == 2

-----------------------------------------------------------------------------
(* Values *)

None == <<>>

\* slugs handed to the operations: two well-formed ones, the empty string and
\* one with an upper-case letter
SlugA == <<"a">>
SlugB == <<"b", "-", "1">>
SlugEmpty == <<>>
SlugUpper == <<"A">>
Slugs == {SlugA, SlugB}
SlugInputs == {SlugA, SlugB, SlugEmpty, SlugUpper}

\* the characters /[a-z0-9-]/ accepts, as far as the inputs use them
SlugChars == {"a", "b", "0", "1", "-"}

Files == {"x.ts"}

TaskStatus == {"active", "merged", "dropped"}
StatusInputs == TaskStatus \cup {"archived"}

RepoRoot == "/repo"
BranchName(slug) == <<"hive/">> \o slug
WorktreePath(slug) == <<RepoRoot, ".worktrees">> \o slug

DescriptionInputs == {"", "fix login"}

Task(slug, description, branch, worktreePath, createdAt, status) ==
    [slug |-> slug, description |-> description, branch |-> branch,
     worktreePath |-> worktreePath, createdAt |-> createdAt, status |-> status]

TaskFields == {"slug", "description", "branch", "worktreePath", "createdAt", "status"}

\* the task a creation command builds for a slug
NewTaskRecord(slug) ==
    Task(slug, "fix login", BranchName(slug), WorktreePath(slug),
         "2025-01-01T00:00:00.000Z", "active")

\* tasks handed to addTask: for every slug the record a creation command
\* builds, in every status, and that record with one field emptied
TaskInputs ==
    { [NewTaskRecord(s) EXCEPT !.status = st] : s \in SlugInputs, st \in StatusInputs }
    \cup { [NewTaskRecord(s) EXCEPT !.description = ""] : s \in Slugs }
    \cup { [NewTaskRecord(s) EXCEPT !.branch = <<>>] : s \in Slugs }
    \cup { [NewTaskRecord(s) EXCEPT !.worktreePath = <<>>] : s \in Slugs }
    \cup { [NewTaskRecord(s) EXCEPT !.createdAt = ""] : s \in Slugs }

\* Partial<Task> values handed to updateTask
UpdateInputs ==
    { [status |-> st] : st \in StatusInputs }
    \cup { [slug |-> s] : s \in SlugInputs }
    \cup { [slug |-> s, status |-> st] : s \in SlugInputs, st \in {"merged"} }
    \cup { [description |-> d] : d \in DescriptionInputs }
    \cup { [branch |-> b] : b \in {<<>>, <<"feature/x">>} }

\* outcome of a file-system write or of a git subprocess
IoOutcomes == {"ok", "fail"}

\* outcome of the git subprocesses of mergeBranch: all succeed, one other
\* than the pull fails, only the pull fails
MergeOutcomes == {"ok", "fail", "pullFail"}

\* a task called main, and the slugs handed to the worktree manager
SlugMain == <<"m", "a", "i", "n">>
GitSlugInputs == Slugs \cup {SlugMain}

\* HiveConfig, as far as the worktree manager is concerned
DEFAULT_CONFIG ==
    [worktreeDir |-> ".worktrees", autoSymlink |-> TRUE, customSymlinks |-> <<>>]
ConfigInputs ==
    {DEFAULT_CONFIG,
     [worktreeDir |-> "trees", autoSymlink |-> FALSE, customSymlinks |-> <<>>]}

\* no analysis function is about to be called
NoArgs == [fn |-> "none"]

\* the ecosystem signatures: marker files and the directories to share
PROJECT_DETECTORS ==
    << [type |-> "node", files |-> {"package.json"},
        symlinks |-> <<"node_modules", ".next", ".turbo", "dist", ".output",
                       ".nuxt", ".svelte-kit">>],
       [type |-> "python",
        files |-> {"requirements.txt", "pyproject.toml", "Pipfile", "setup.py"},
        symlinks |-> <<"venv", ".venv", "__pycache__", ".pytest_cache",
                       ".mypy_cache">>],
       [type |-> "rust", files |-> {"Cargo.toml"}, symlinks |-> <<"target">>],
       [type |-> "go", files |-> {"go.mod"}, symlinks |-> <<"vendor">>],
       [type |-> "java", files |-> {"build.gradle", "pom.xml"},
        symlinks |-> <<".gradle", "build", "target">>],
       [type |-> "ios", files |-> {"Podfile"}, symlinks |-> <<"Pods">>],
       [type |-> "general", files |-> {}, symlinks |-> <<"build", ".cache">>] >>

\* what du -sb prints for a directory of the main working copy
DirBytes(dir) ==
    IF dir = "node_modules" THEN 4 ELSE IF dir = "build" THEN 2 ELSE 1

\* the repository getDefaultBranch looks at: remotes, the remote-tracking
\* branches <<remote, name>> that git branch -r lists as remote/name, the
\* local branches, and what git rev-parse --abbrev-ref HEAD prints (the
\* current branch, "HEAD" when detached; it fails when no commit exists yet)
Remotes == {"origin", "upstream"}
BranchNames == {"main", "master", "dev"}
Detached == "HEAD"
Unborn == "fatal: ambiguous argument 'HEAD'"
\* and the main working copy createSymlinks looks at: the marker files in
\* its root, the directories that exist in it (sources), those of them that
\* git tracks and so exist in a new working copy too (tracked), the tracked
\* links that point at nothing, at whose place no link can be made
\* (dangling), and the directories for which du prints nothing (unsized)
DefaultRepo ==
    [remotes |-> {}, remoteBranches |-> {}, local |-> {"main"}, current |-> "main",
     markers |-> {"package.json"}, sources |-> {"node_modules"}, tracked |-> {},
     dangling |-> {}, unsized |-> {}]
RepoInputs ==
    { [DefaultRepo EXCEPT !.remotes = rs, !.remoteBranches = rbs, !.local = ls,
                          !.current = c] :
        rs \in SUBSET Remotes,
        rbs \in SUBSET (Remotes \X {"main", "master"}),
        ls \in SUBSET BranchNames,
        c \in BranchNames \cup {Detached, Unborn} }
ValidRepo(r) ==
    /\ \A rb \in r.remoteBranches : rb[1] \in r.remotes
    /\ IF r.local = {} THEN r.current = Unborn
                       ELSE r.current \in r.local \cup {Detached}

\* the main working copies createSymlinks is tried on: each of three
\* directories is absent, present, tracked, a dangling link in the new
\* working copy, or present with du failing on it
MarkerInputs == {{}, {"package.json"}, {"package.json", "pom.xml", "Cargo.toml"}}
VariedDirs == {"node_modules", "build", "data"}
DirStates == {"absent", "present", "tracked", "dangling", "unsized"}
CopyInputs ==
    { [DefaultRepo EXCEPT
         !.markers = ms,
         !.sources = {d \in VariedDirs : st[d] # "absent"},
         !.tracked = {d \in VariedDirs : st[d] = "tracked"},
         !.dangling = {d \in VariedDirs : st[d] = "dangling"},
         !.unsized = {d \in VariedDirs : st[d] = "unsized"}] :
        ms \in MarkerInputs, st \in [VariedDirs -> DirStates] }
SymlinkConfigInputs ==
    {DEFAULT_CONFIG,
     [DEFAULT_CONFIG EXCEPT !.customSymlinks = <<"data", "build">>],
     [DEFAULT_CONFIG EXCEPT !.autoSymlink = FALSE]}

-----------------------------------------------------------------------------
(* Task registry: lib/tasks.ts *)

ErrSlug == "Task must have a valid slug"
ErrDescription == "Task must have a valid description"
ErrBranch == "Task must have a valid branch name"
ErrWorktreePath == "Task must have a valid worktree path"
ErrCreatedAt == "Task must have a valid createdAt timestamp"
ErrStatus == "Task status must be one of: active, merged, dropped"
ErrSlugFormat == "Task slug must contain only lowercase letters, numbers, and hyphens"
ErrDuplicate == "Task with slug already exists"
ErrNotFound == "Task with slug not found"
ErrChangeSlug == "Cannot change task slug"
ErrWrite == "EIO: write failed"
ValidationErrors ==
    {ErrSlug, ErrDescription, ErrBranch, ErrWorktreePath, ErrCreatedAt,
     ErrStatus, ErrSlugFormat}

\* /^[a-z0-9-]+$/.test(slug)
SlugFormat(slug) ==
    /\ Len(slug) >= 1
    /\ \A i \in 1..Len(slug) : slug[i] \in SlugChars

\* validateTask without its check of the status
validateTaskNoStatusCheck(task) ==
    IF task.slug = <<>> THEN ErrSlug
    ELSE IF task.description = "" THEN ErrDescription
    ELSE IF task.branch = <<>> THEN ErrBranch
    ELSE IF task.worktreePath = <<>> THEN ErrWorktreePath
    ELSE IF task.createdAt = "" THEN ErrCreatedAt
    ELSE IF ~SlugFormat(task.slug) THEN ErrSlugFormat
    ELSE "ok"

\* validateTask: "ok", or the message of the error it throws
validateTask(task) ==
    IF task.slug = <<>> THEN ErrSlug
    ELSE IF task.description = "" THEN ErrDescription
    ELSE IF task.branch = <<>> THEN ErrBranch
    ELSE IF task.worktreePath = <<>> THEN ErrWorktreePath
    ELSE IF task.createdAt = "" THEN ErrCreatedAt
    ELSE IF task.status \notin TaskStatus THEN ErrStatus
    ELSE IF ~SlugFormat(task.slug) THEN ErrSlugFormat
    ELSE "ok"

\* tasks.findIndex(t => t.slug === slug), 1-based; 0 when there is none
findIndex(tasks, slug) ==
    IF \E i \in 1..Len(tasks) : tasks[i].slug = slug
    THEN CHOOSE i \in 1..Len(tasks) :
            /\ tasks[i].slug = slug
            /\ \A j \in 1..(i - 1) : tasks[j].slug # slug
    ELSE 0

\* getTask: <<task>> when found, <<>> for null
getTask(tasks, slug) ==
    LET i == findIndex(tasks, slug)
    IN  IF i = 0 THEN <<>> ELSE <<tasks[i]>>

\* getTasksByStatus / the filter of the views
getTasksByStatus(tasks, status) ==
    SelectSeq(tasks, LAMBDA t : t.status = status)

\* writeTasks: the list on disk after the call (temp file, then rename)
writeTasks(old, new, io) == IF io = "ok" THEN new ELSE old

\* { ...task, ...updates }
Spread(task, updates) ==
    [f \in TaskFields |-> IF f \in DOMAIN updates THEN updates[f] ELSE task[f]]

\* addTask without its duplicate check
addTaskNoDuplicateCheck(tasks, task, io) ==
    LET v == validateTask(task)
    IN  IF v # "ok" THEN [err |-> v, tasks |-> tasks]
        ELSE IF io # "ok" THEN [err |-> ErrWrite, tasks |-> tasks]
        ELSE [err |-> "ok", tasks |-> writeTasks(tasks, Append(tasks, task), io)]

\* addTask: [err, tasks]: the error thrown ("ok" for none) and the stored list
addTask(tasks, task, io) ==
    LET v == validateTask(task)
    IN  IF v # "ok" THEN [err |-> v, tasks |-> tasks]
        ELSE IF \E i \in 1..Len(tasks) : tasks[i].slug = task.slug
        THEN [err |-> ErrDuplicate, tasks |-> tasks]
        ELSE IF io # "ok" THEN [err |-> ErrWrite, tasks |-> tasks]
        ELSE [err |-> "ok", tasks |-> writeTasks(tasks, Append(tasks, task), io)]

\* updateTask without its check of updates.slug
updateTaskNoSlugCheck(tasks, slug, updates, io) ==
    LET index == findIndex(tasks, slug)
    IN  IF index = 0 THEN [err |-> ErrNotFound, tasks |-> tasks]
        ELSE LET updatedTask == Spread(tasks[index], updates)
                 v == validateTask(updatedTask)
             IN  IF v # "ok" THEN [err |-> v, tasks |-> tasks]
                 ELSE IF io # "ok" THEN [err |-> ErrWrite, tasks |-> tasks]
                 ELSE [err |-> "ok",
                       tasks |-> writeTasks(tasks, [tasks EXCEPT ![index] = updatedTask], io)]

\* updateTask: [err, tasks]
updateTask(tasks, slug, updates, io) ==
    LET index == findIndex(tasks, slug)
    IN  IF index = 0 THEN [err |-> ErrNotFound, tasks |-> tasks]
        ELSE IF "slug" \in DOMAIN updates /\ updates.slug # <<>> /\ updates.slug # slug
        THEN [err |-> ErrChangeSlug, tasks |-> tasks]
        ELSE LET updatedTask == Spread(tasks[index], updates)
                 v == validateTask(updatedTask)
             IN  IF v # "ok" THEN [err |-> v, tasks |-> tasks]
                 ELSE IF io # "ok" THEN [err |-> ErrWrite, tasks |-> tasks]
                 ELSE [err |-> "ok",
                       tasks |-> writeTasks(tasks, [tasks EXCEPT ![index] = updatedTask], io)]

\* tasks.splice(index, 1)
Splice(tasks, index) ==
    SubSeq(tasks, 1, index - 1) \o SubSeq(tasks, index + 1, Len(tasks))

\* removeTask that splices its list and returns without writing it
removeTaskUnwritten(tasks, slug, io) ==
    LET index == findIndex(tasks, slug)
    IN  IF index = 0 THEN [err |-> "ok", removed |-> FALSE, tasks |-> tasks]
        ELSE [err |-> "ok", removed |-> TRUE, tasks |-> tasks]

\* removeTask: [err, removed, tasks]
removeTask(tasks, slug, io) ==
    LET index == findIndex(tasks, slug)
    IN  IF index = 0 THEN [err |-> "ok", removed |-> FALSE, tasks |-> tasks]
        ELSE IF io # "ok" THEN [err |-> ErrWrite, removed |-> FALSE, tasks |-> tasks]
        ELSE [err |-> "ok", removed |-> TRUE,
              tasks |-> writeTasks(tasks, Splice(tasks, index), io)]

-----------------------------------------------------------------------------
(* Calls of the registry's operations *)

AddTaskCall ==
    \E task \in TaskInputs, io \in IoOutcomes :
        LET r == addTask(storedTasks, task, io)
        IN  /\ Len(storedTasks) < MaxTasks \/ r.err # "ok"
            /\ storedTasks' = r.tasks
            /\ last' = [op |-> "addTask", task |-> task, io |-> io, err |-> r.err,
                        before |-> storedTasks]
            /\ UNCHANGED <<gitVars, mc>>
            /\ UNCHANGED <<diskVars, repo, args, cmd>>

UpdateTaskCall ==
    \E slug \in SlugInputs, updates \in UpdateInputs, io \in IoOutcomes :
        LET r == updateTask(storedTasks, slug, updates, io)
        IN  /\ storedTasks' = r.tasks
            /\ last' = [op |-> "updateTask", slug |-> slug, updates |-> updates,
                        io |-> io, err |-> r.err, before |-> storedTasks]
            /\ UNCHANGED <<gitVars, mc>>
            /\ UNCHANGED <<diskVars, repo, args, cmd>>

RemoveTaskCall ==
    \E slug \in SlugInputs, io \in IoOutcomes :
        LET r == removeTask(storedTasks, slug, io)
        IN  /\ storedTasks' = r.tasks
            /\ last' = [op |-> "removeTask", slug |-> slug, io |-> io, err |-> r.err,
                        removed |-> r.removed, before |-> storedTasks]
            /\ UNCHANGED <<gitVars, mc>>
            /\ UNCHANGED <<diskVars, repo, args, cmd>>

-----------------------------------------------------------------------------
(* The registry on disk: readTasks and writeTasks system call by system    *)
(* call.  A file's content is the sequence of the tokens of its JSON text: *)
(* the opening of {"tasks": [, one token per record, the closing ]}.  The   *)
(* records the processes write have slugs of one length and so the same    *)
(* length in the file: a write at offset 0 replaces the tokens before it   *)
(* one for one.                                                            *)

Procs == {"p1", "p2"}

TASKS_FILE == "tasks.json"

\* writeTasks writing the document in place
tempFileInPlace == "tasks.json"

\* const tempFile = `${TASKS_FILE}.tmp`
tempFile == "tasks.json.tmp"

Paths == {"tasks.json", "tasks.json.tmp"}

NoFile == [exists |-> FALSE, data |-> <<>>]
File(data) == [exists |-> TRUE, data |-> data]

ErrSyntax == "SyntaxError: Unexpected end of JSON input"
ErrRename == "ENOENT: no such file or directory, rename"

\* JSON.stringify({ tasks }, null, 2)
Stringify(tasks) ==
    <<[k |-> "open"]>>
    \o [i \in 1..Len(tasks) |-> [k |-> "task", v |-> tasks[i]]]
    \o <<[k |-> "close"]>>

\* JSON.parse(data) and the read of parsed.tasks: [err, tasks]
JsonParse(data) ==
    IF /\ Len(data) >= 2
       /\ data[1].k = "open"
       /\ data[Len(data)].k = "close"
       /\ \A i \in 2..(Len(data) - 1) : data[i].k = "task"
    THEN [err |-> "ok", tasks |-> [i \in 1..(Len(data) - 2) |-> data[i + 1].v]]
    ELSE [err |-> ErrSyntax, tasks |-> <<>>]

\* readTasks: ENOENT gives the empty list, any other error is thrown
readTasks(fs) ==
    IF ~fs[TASKS_FILE].exists THEN [err |-> "ok", tasks |-> <<>>]
    ELSE JsonParse(fs[TASKS_FILE].data)

\* write(fd, data) at offset 0 of a file holding old
Overlay(old, data) == data \o SubSeq(old, Len(data) + 1, Len(old))

\* fs.renameSync(from, to)
renameSync(fs, from, to) ==
    IF from = to THEN fs
    ELSE [fs EXCEPT ![to] = fs[from], ![from] = NoFile]

\* a process of the CLI that runs no registry operation
ProcIdle ==
    [pc |-> "idle", op |-> "none", task |-> NewTaskRecord(SlugA), slug |-> SlugA,
     updates |-> [status |-> "merged"], snapshot |-> <<>>, new |-> <<>>,
     fd |-> "none", ret |-> "none", calls |-> 0]

\* the slugs processes work on, and one that validateTask rejects
WriterSlugs == {<<"a">>, <<"b">>}

\* the calls processes make
CallInputs ==
    { [op |-> "addTask", task |-> t, slug |-> t.slug, updates |-> [status |-> "merged"]] :
        t \in { NewTaskRecord(s) : s \in WriterSlugs } \cup { NewTaskRecord(SlugUpper) } }
    \cup { [op |-> "updateTask", task |-> NewTaskRecord(s), slug |-> s, updates |-> u] :
        s \in WriterSlugs, u \in {[status |-> "merged"], [status |-> "archived"]} }
    \cup { [op |-> "removeTask", task |-> NewTaskRecord(s), slug |-> s,
            updates |-> [status |-> "merged"]] : s \in WriterSlugs }

\* the read-modify part of an operation on the list it read: [err, tasks, write]
Modify(m, tasks) ==
    IF m.op = "addTask"
    THEN LET r == addTask(tasks, m.task, "ok")
         IN  [err |-> r.err, tasks |-> r.tasks, write |-> r.err = "ok"]
    ELSE IF m.op = "updateTask"
    THEN LET r == updateTask(tasks, m.slug, m.updates, "ok")
         IN  [err |-> r.err, tasks |-> r.tasks, write |-> r.err = "ok"]
    ELSE LET r == removeTask(tasks, m.slug, "ok")
         IN  [err |-> r.err, tasks |-> r.tasks, write |-> r.removed]

\* a process is started with an operation; addTask validates its argument
\* before it reads
Call(p) ==
    \E c \in CallInputs :
        /\ procs[p].pc = "idle"
        /\ procs[p].calls < MaxCalls
        /\ procs' = [procs EXCEPT ![p] =
              IF c.op = "addTask" /\ validateTask(c.task) # "ok"
              THEN [@ EXCEPT !.op = c.op, !.task = c.task, !.slug = c.slug,
                             !.updates = c.updates, !.ret = validateTask(c.task),
                             !.calls = @ + 1]
              ELSE [@ EXCEPT !.op = c.op, !.task = c.task, !.slug = c.slug,
                             !.updates = c.updates, !.ret = "none", !.pc = "read",
                             !.calls = @ + 1]]
        /\ UNCHANGED <<storedTasks, last, gitVars, mc, files, repo, args, cmd>>

\* const tasks = await readTasks(), and the checks up to writeTasks
ReadStep(p) ==
    LET r == readTasks(files)
        m == Modify(procs[p], r.tasks)
    IN  /\ procs[p].pc = "read"
        /\ procs[p].op = "addTask" => (Len(r.tasks) < MaxTasks \/ m.err # "ok")
        /\ procs' = [procs EXCEPT ![p] =
              IF r.err # "ok" THEN [@ EXCEPT !.pc = "idle", !.ret = r.err]
              ELSE IF ~m.write
              THEN [@ EXCEPT !.pc = "idle", !.ret = m.err,
                             !.snapshot = r.tasks, !.new = r.tasks]
              ELSE [@ EXCEPT !.pc = "open", !.snapshot = r.tasks, !.new = m.tasks]]
        /\ UNCHANGED <<storedTasks, last, gitVars, mc, files, repo, args, cmd>>

\* writeFile(tempFile, json): open(tempFile, O_WRONLY | O_CREAT | O_TRUNC)
OpenTemp(p) ==
    \E io \in IoOutcomes :
        /\ procs[p].pc = "open"
        /\ IF io = "ok"
           THEN /\ files' = [files EXCEPT ![tempFile] = File(<<>>)]
                /\ procs' = [procs EXCEPT ![p].pc = "write", ![p].fd = tempFile]
           ELSE /\ files' = files
                /\ procs' = [procs EXCEPT ![p].pc = "idle", ![p].ret = ErrWrite]
        /\ UNCHANGED <<storedTasks, last, gitVars, mc, repo, args, cmd>>

\* the file after n tokens of json went to the open file of process p
Written(p, n) ==
    IF procs[p].fd \in Paths
    THEN [files EXCEPT ![procs[p].fd].data =
              Overlay(@, SubSeq(Stringify(procs[p].new), 1, n))]
    ELSE files

\* writeFile(tempFile, json): write(fd, json); a failed write leaves a part
WriteTemp(p) ==
    \E io \in IoOutcomes :
        /\ procs[p].pc = "write"
        /\ IF io = "ok"
           THEN /\ files' = Written(p, Len(Stringify(procs[p].new)))
                /\ procs' = [procs EXCEPT ![p].pc = "rename", ![p].fd = "none"]
           ELSE /\ \E n \in 0..(Len(Stringify(procs[p].new)) - 1) : files' = Written(p, n)
                /\ procs' = [procs EXCEPT ![p].pc = "idle", ![p].fd = "none",
                                          ![p].ret = ErrWrite]
        /\ UNCHANGED <<storedTasks, last, gitVars, mc, repo, args, cmd>>

\* the open file of another process after tempFile was renamed to TASKS_FILE
FdAfterRename(fd) ==
    IF tempFile = TASKS_FILE THEN fd
    ELSE IF fd = tempFile THEN TASKS_FILE
    ELSE IF fd = TASKS_FILE THEN "unlinked"
    ELSE fd

\* a rename that keeps the stored records missing from the list it installs
RenameKeepingStored(p) ==
    /\ procs[p].pc = "rename"
    /\ IF files[tempFile].exists
       THEN /\ files' =
                 [files EXCEPT
                    ![TASKS_FILE] =
                        IF JsonParse(files[tempFile].data).err = "ok"
                        THEN File(Stringify(
                                JsonParse(files[tempFile].data).tasks
                                \o SelectSeq(readTasks(files).tasks,
                                       LAMBDA t : getTask(JsonParse(files[tempFile].data).tasks,
                                                          t.slug) = <<>>)))
                        ELSE files[tempFile],
                    ![tempFile] = NoFile]
            /\ procs' = [q \in Procs |->
                  IF q = p THEN [procs[q] EXCEPT !.pc = "idle", !.ret = "ok"]
                  ELSE [procs[q] EXCEPT !.fd = FdAfterRename(@)]]
       ELSE /\ files' = files
            /\ procs' = [procs EXCEPT ![p].pc = "idle", ![p].ret = ErrRename]
    /\ UNCHANGED <<storedTasks, last, gitVars, mc, repo, args, cmd>>

\* fs.renameSync(tempFile, TASKS_FILE) and the return of the operation
Rename(p) ==
    /\ procs[p].pc = "rename"
    /\ IF files[tempFile].exists
       THEN /\ files' = renameSync(files, tempFile, TASKS_FILE)
            /\ procs' = [q \in Procs |->
                  IF q = p THEN [procs[q] EXCEPT !.pc = "idle", !.ret = "ok"]
                  ELSE [procs[q] EXCEPT !.fd = FdAfterRename(@)]]
       ELSE /\ files' = files
            /\ procs' = [procs EXCEPT ![p].pc = "idle", ![p].ret = ErrRename]
    /\ UNCHANGED <<storedTasks, last, gitVars, mc, repo, args, cmd>>

\* the process is killed; killed inside write(fd, json) it leaves a part
Crash(p) ==
    /\ procs[p].pc # "idle"
    /\ IF procs[p].pc = "write"
       THEN \E n \in 0..(Len(Stringify(procs[p].new)) - 1) : files' = Written(p, n)
       ELSE files' = files
    /\ procs' = [procs EXCEPT ![p].pc = "idle", ![p].fd = "none", ![p].ret = "crashed"]
    /\ UNCHANGED <<storedTasks, last, gitVars, mc, repo, args, cmd>>

-----------------------------------------------------------------------------
(* Worktree manager: lib/git.ts.  Each operation is given the outcome of   *)
(* its git subprocesses ("fail": one of them exits non-zero for a reason   *)
(* other than the ones the code tests for) and yields the error it throws  *)
(* ("ok" for none), its result and the state of the repository it leaves.  *)

ErrWorktreeNotFound == "Worktree not found"
ErrWorktreeExists == "Worktree already exists"
ErrBranchExists == "Branch already exists"
ErrCheckChanges == "Failed to check for uncommitted changes"
ErrDiffStats == "Failed to get diff stats"
ErrMergeBranch == "Failed to merge branch"
ErrRemoveWorktree == "Failed to remove worktree"
ErrCreateWorktree == "Failed to create worktree"
ErrAbortMerge == "Failed to abort merge"
ErrDefaultBranch == "Failed to determine default branch"

\* getDefaultBranch(git): ioRemote is the outcome of git branch -r, io the
\* outcome of the other git calls (getRemotes is the first of them)
getDefaultBranch(r, ioRemote, io) ==
    LET origin(name) == <<"origin", name>>
        remoteSaysMain == r.remotes # {} /\ ioRemote = "ok"
                            /\ origin("main") \in r.remoteBranches
        remoteSaysMaster == r.remotes # {} /\ ioRemote = "ok"
                            /\ origin("master") \in r.remoteBranches
    IN  IF io = "fail" THEN [err |-> ErrDefaultBranch, branch |-> ""]
        ELSE IF remoteSaysMain THEN [err |-> "ok", branch |-> "main"]
        ELSE IF remoteSaysMaster THEN [err |-> "ok", branch |-> "master"]
        ELSE IF "main" \in r.local THEN [err |-> "ok", branch |-> "main"]
        ELSE IF "master" \in r.local THEN [err |-> "ok", branch |-> "master"]
        ELSE IF r.current = Unborn THEN [err |-> ErrDefaultBranch, branch |-> ""]
        ELSE [err |-> "ok", branch |-> r.current]

\* listWorktrees().find(w => w.slug === slug)
\* worktreePath.split('.worktrees/')[1], on the pieces of the path: what
\* follows the first piece .worktrees (<<>> when nothing does)
AfterWorktreesDir(path) ==
    LET i == CHOOSE k \in 1..Len(path) :
                /\ path[k] = ".worktrees"
                /\ \A j \in 1..(k - 1) : path[j] # ".worktrees"
    IN  SubSeq(path, i + 1, Len(path))

\* path.basename(worktreePath)
Basename(path) == <<path[Len(path)]>>

\* the slug listWorktrees gives the working copy at a path
SlugOfPath(path) ==
    IF \E k \in 1..(Len(path) - 1) : path[k] = ".worktrees"
    THEN IF AfterWorktreesDir(path) # <<>> THEN AfterWorktreesDir(path)
         ELSE Basename(path)
    ELSE IF path = <<RepoRoot>> THEN SlugMain
    ELSE Basename(path)

\* listWorktrees: the main working copy and the linked ones, as git lists them
listWorktrees ==
    {[path |-> <<RepoRoot>>, slug |-> SlugOfPath(<<RepoRoot>>)]}
    \cup { [path |-> WorktreePath(s), slug |-> SlugOfPath(WorktreePath(s))] : s \in worktrees }

\* the slugs of the entries of listWorktrees
WorktreeSlugs ==
    {SlugOfPath(<<RepoRoot>>)} \cup { SlugOfPath(WorktreePath(s)) : s \in worktrees }

\* worktrees.find((w) => w.slug === slug)
findWorktree(slug) == slug \in WorktreeSlugs

\* the entry find returns when there is one: the first of the listing with
\* the slug, and git lists the main working copy first.  The branch is the
\* one checked out there: the target branch in the main working copy
TargetBranch == <<"main">>

findWorktreeEntry(slug) ==
    IF SlugOfPath(<<RepoRoot>>) = slug
    THEN [path |-> <<RepoRoot>>, branch |-> TargetBranch, slug |-> slug]
    ELSE LET s == CHOOSE t \in worktrees : SlugOfPath(WorktreePath(t)) = slug
         IN  [path |-> WorktreePath(s), branch |-> BranchName(s), slug |-> slug]

\* hasUncommittedChanges that reports every working copy clean
hasUncommittedChangesNever(slug, io) ==
    IF io # "ok" THEN [err |-> ErrCheckChanges, value |-> FALSE]
    ELSE IF ~findWorktree(slug) THEN [err |-> ErrWorktreeNotFound, value |-> FALSE]
    ELSE [err |-> "ok", value |-> FALSE]

\* hasUncommittedChanges: [err, value]
hasUncommittedChanges(slug, io) ==
    IF io # "ok" THEN [err |-> ErrCheckChanges, value |-> FALSE]
    ELSE IF ~findWorktree(slug) THEN [err |-> ErrWorktreeNotFound, value |-> FALSE]
    ELSE [err |-> "ok", value |-> slug \in dirty]

\* the tracked files that the uncommitted edits of a working copy may touch:
\* none in a clean copy, none or some in a dirty one (a new untracked file
\* makes the copy dirty and shows in no diff)
EditedInputs(slug) == IF slug \in dirty THEN SUBSET Files ELSE {{}}

\* diffSummary([base]) run in the working copy, git diff --stat <base>: the
\* working files against the tip of the base. Every change of the model adds
\* one line to a file, so a file changed by the branch or by an uncommitted
\* edit counts one insertion, a file changed on the base since the branch
\* forked counts one deletion.
diffSummary(slug, edited) ==
    LET own == commits[slug] \cup edited
        base == targetSince[slug]
    IN  [files |-> own \cup base,
         insertions |-> Cardinality(own),
         deletions |-> Cardinality(base)]

\* git diff --stat <base>...HEAD of the diff command: the commits of the
\* branch since the merge base
diffStatMergeBase(slug) ==
    [files |-> commits[slug],
     insertions |-> Cardinality(commits[slug]),
     deletions |-> Cardinality({})]

NoStats ==
    [files |-> {}, totalFiles |-> Cardinality({}), totalInsertions |-> Cardinality({}),
     totalDeletions |-> Cardinality({})]

\* getDiffStats: [err, stats]
getDiffStats(slug, io, edited) ==
    IF io # "ok" THEN [err |-> ErrDiffStats, stats |-> NoStats]
    ELSE IF ~findWorktree(slug) THEN [err |-> ErrWorktreeNotFound, stats |-> NoStats]
    ELSE LET diff == diffSummary(slug, edited)
         IN  [err |-> "ok",
              stats |-> [files |-> diff.files,
                         totalFiles |-> Cardinality(diff.files),
                         totalInsertions |-> diff.insertions,
                         totalDeletions |-> diff.deletions]]

\* the files on which merging hive/<slug> into the target conflicts: those
\* changed on both sides since the branch forked
ConflictsOf(slug) == commits[slug] \cap targetSince[slug]

\* the target after hive/<slug> has been merged into it: every other branch
\* now sees the branch's files as changed on the target
TargetAfterMerge(slug) ==
    [t \in Slugs |-> IF t = slug THEN {}
                     ELSE IF t \in branches THEN targetSince[t] \cup commits[slug]
                     ELSE targetSince[t]]

GitUnchanged ==
    [mergeHead |-> mergeHead, conflicted |-> conflicted, mergedInto |-> mergedInto,
     commits |-> commits, targetSince |-> targetSince]

\* mergeBranch that aborts the merge when it finds conflicts
mergeBranchAbortsOnConflict(slug, io) ==
    IF io = "fail" \/ ~findWorktree(slug) \/ (mergeHead # None /\ conflicted = {})
    THEN [err |-> ErrMergeBranch, success |-> FALSE, conflicts |-> {},
          git |-> GitUnchanged]
    ELSE IF mergeHead # None
    THEN [err |-> "ok", success |-> FALSE, conflicts |-> conflicted,
          git |-> GitUnchanged]
    ELSE IF ConflictsOf(slug) # {}
    THEN [err |-> "ok", success |-> FALSE, conflicts |-> ConflictsOf(slug),
          git |-> GitUnchanged]
    ELSE [err |-> "ok", success |-> TRUE, conflicts |-> {},
          git |-> [GitUnchanged EXCEPT
                     !.mergedInto = @ \cup {slug},
                     !.commits = [@ EXCEPT ![slug] = {}],
                     !.targetSince = TargetAfterMerge(slug)]]

\* mergeBranch that lets a failed pull fail the merge
mergeBranchPullEscalates(slug, io) ==
    IF io # "ok"
    THEN [err |-> ErrMergeBranch, success |-> FALSE, conflicts |-> {},
          git |-> GitUnchanged]
    ELSE IF ~findWorktree(slug)
    THEN [err |-> ErrWorktreeNotFound, success |-> FALSE, conflicts |-> {},
          git |-> GitUnchanged]
    ELSE IF mergeHead # None
    THEN IF conflicted # {}
         THEN [err |-> "ok", success |-> FALSE, conflicts |-> conflicted,
               git |-> GitUnchanged]
         ELSE [err |-> ErrMergeBranch, success |-> FALSE, conflicts |-> {},
               git |-> GitUnchanged]
    ELSE IF findWorktreeEntry(slug).branch = TargetBranch
    THEN \* git merge of the branch that is checked out: already up to date
         [err |-> "ok", success |-> TRUE, conflicts |-> {}, git |-> GitUnchanged]
    ELSE IF ConflictsOf(slug) # {}
    THEN [err |-> "ok", success |-> FALSE, conflicts |-> ConflictsOf(slug),
          git |-> [GitUnchanged EXCEPT !.mergeHead = slug,
                                       !.conflicted = ConflictsOf(slug)]]
    ELSE [err |-> "ok", success |-> TRUE, conflicts |-> {},
          git |-> [GitUnchanged EXCEPT
                     !.mergedInto = @ \cup {slug},
                     !.commits = [@ EXCEPT ![slug] = {}],
                     !.targetSince = TargetAfterMerge(slug)]]

\* mergeBranch: [err, success, conflicts, git]; the error of the pull is
\* ignored
mergeBranch(slug, io) ==
    IF io = "fail"
    THEN [err |-> ErrMergeBranch, success |-> FALSE, conflicts |-> {},
          git |-> GitUnchanged]
    ELSE IF ~findWorktree(slug)
    THEN [err |-> ErrWorktreeNotFound, success |-> FALSE, conflicts |-> {},
          git |-> GitUnchanged]
    ELSE IF mergeHead # None
    THEN \* git merge refuses while MERGE_HEAD exists; git.status() decides
         IF conflicted # {}
         THEN [err |-> "ok", success |-> FALSE, conflicts |-> conflicted,
               git |-> GitUnchanged]
         ELSE [err |-> ErrMergeBranch, success |-> FALSE, conflicts |-> {},
               git |-> GitUnchanged]
    ELSE IF findWorktreeEntry(slug).branch = TargetBranch
    THEN \* git merge of the branch that is checked out: already up to date
         [err |-> "ok", success |-> TRUE, conflicts |-> {}, git |-> GitUnchanged]
    ELSE IF ConflictsOf(slug) # {}
    THEN [err |-> "ok", success |-> FALSE, conflicts |-> ConflictsOf(slug),
          git |-> [GitUnchanged EXCEPT !.mergeHead = slug,
                                       !.conflicted = ConflictsOf(slug)]]
    ELSE [err |-> "ok", success |-> TRUE, conflicts |-> {},
          git |-> [GitUnchanged EXCEPT
                     !.mergedInto = @ \cup {slug},
                     !.commits = [@ EXCEPT ![slug] = {}],
                     !.targetSince = TargetAfterMerge(slug)]]

\* what git prints when `git merge --abort` finds no MERGE_HEAD
GitNoMergeToAbort ==
    <<"fatal:", "There", "is", "no", "merge", "to", "abort", "(MERGE_HEAD", "missing).">>
GitResetFailed == <<"fatal:", "Could", "not", "reset", "index", "file">>
NoMergeInProgress == <<"no", "merge", "in", "progress">>

\* String.prototype.includes(pattern), on words
Includes(message, pattern) ==
    \E i \in 1..(Len(message) - Len(pattern) + 1) :
        SubSeq(message, i, i + Len(pattern) - 1) = pattern

\* git.raw(['merge', '--abort']): the message it fails with (<<>> for success)
GitMergeAbort(io) ==
    IF mergeHead = None THEN GitNoMergeToAbort
    ELSE IF io # "ok" THEN GitResetFailed
    ELSE <<>>

\* abortMerge: [err, mergeHead, conflicted]
abortMerge(io) ==
    LET message == GitMergeAbort(io)
    IN  IF message = <<>>
        THEN [err |-> "ok", mergeHead |-> None, conflicted |-> {}]
        ELSE IF ~Includes(message, NoMergeInProgress)
        THEN [err |-> ErrAbortMerge, mergeHead |-> mergeHead, conflicted |-> conflicted]
        ELSE [err |-> "ok", mergeHead |-> mergeHead, conflicted |-> conflicted]

\* removeWorktree that returns without removing the working copy
removeWorktreeLeavesDir(slug, io, ioBranch) ==
    IF ~findWorktree(slug)
    THEN [err |-> ErrWorktreeNotFound, worktrees |-> worktrees,
          branches |-> branches, dirty |-> dirty]
    ELSE IF io # "ok"
    THEN [err |-> "ok", worktrees |-> worktrees, branches |-> branches, dirty |-> dirty]
    ELSE [err |-> "ok", worktrees |-> worktrees \ {slug},
          branches |-> IF ioBranch = "ok" THEN branches \ {slug} ELSE branches,
          dirty |-> dirty \ {slug}]

\* removeWorktree: [err, worktrees, branches, dirty]; the branch deletion is
\* best effort
removeWorktree(slug, io, ioBranch) ==
    IF ~findWorktree(slug)
    THEN [err |-> ErrWorktreeNotFound, worktrees |-> worktrees,
          branches |-> branches, dirty |-> dirty]
    ELSE IF io # "ok" \/ slug \notin worktrees
    THEN [err |-> ErrRemoveWorktree, worktrees |-> worktrees,
          branches |-> branches, dirty |-> dirty]
    ELSE [err |-> "ok", worktrees |-> worktrees \ {slug},
          branches |-> IF ioBranch = "ok" THEN branches \ {slug} ELSE branches,
          dirty |-> dirty \ {slug}]

\* dirsToSymlink.add(dir) for each dir of a list: a Set keeps the first
\* insertion of each name
RECURSIVE AddAll(_, _)
AddAll(acc, dirs) ==
    IF dirs = <<>> THEN acc
    ELSE LET dir == Head(dirs)
             seen == \E k \in 1..Len(acc) : acc[k] = dir
         IN  AddAll(IF seen THEN acc ELSE Append(acc, dir), Tail(dirs))

hasProjectFile(config) ==
    config.files = {} \/ \E f \in config.files : f \in repo.markers

\* the directories of the detectors from the n-th on whose marker is present
RECURSIVE Detected(_, _)
Detected(n, acc) ==
    IF n > Len(PROJECT_DETECTORS) THEN acc
    ELSE Detected(n + 1, IF hasProjectFile(PROJECT_DETECTORS[n])
                         THEN AddAll(acc, PROJECT_DETECTORS[n].symlinks)
                         ELSE acc)

\* the candidate directories, in the order the loop visits them
dirsToSymlink(customSymlinks) == AddAll(Detected(1, <<>>), customSymlinks)

\* getDirSize: du -sb | cut -f1, parseInt(...) || 0
getDirSize(dir) == IF dir \in repo.unsized THEN 0 ELSE DirBytes(dir)

\* one candidate that is linked although its destination exists
linkDirOverTarget(dir) ==
    IF dir \notin repo.sources THEN "skipped"
    ELSE IF dir \in repo.dangling THEN "skipped"
    ELSE "created"

\* the body of the loop for one candidate, its catch included: fs.symlink
\* throws where a dangling link is in the way
linkDir(dir) ==
    IF dir \notin repo.sources THEN "skipped"
    ELSE IF dir \in repo.tracked THEN "skipped"
    ELSE IF dir \in repo.dangling THEN "skipped"
    ELSE "created"

NoSymlinks == [created |-> <<>>, skipped |-> <<>>, savedBytes |-> 0]

RECURSIVE linkAll(_, _)
linkAll(dirs, result) ==
    IF dirs = <<>> THEN result
    ELSE LET dir == Head(dirs)
             out == linkDir(dir)
         IN  IF out = "created"
             THEN linkAll(Tail(dirs),
                          [result EXCEPT !.created = Append(@, dir),
                                         !.savedBytes = @ + getDirSize(dir)])
             ELSE linkAll(Tail(dirs), [result EXCEPT !.skipped = Append(@, dir)])

\* createSymlinks(repoRoot, worktreePath, customSymlinks): it has no throw
\* outside the try of its loop
createSymlinks(customSymlinks) == linkAll(dirsToSymlink(customSymlinks), NoSymlinks)

\* createWorktree without its check of the branch
createWorktreeNoBranchCheck(slug, io, config) ==
    IF slug \in worktrees
    THEN [err |-> ErrWorktreeExists, worktrees |-> worktrees, branches |-> branches,
          path |-> <<>>, symlinks |-> NoSymlinks]
    ELSE IF io # "ok"
    THEN [err |-> ErrCreateWorktree, worktrees |-> worktrees, branches |-> branches,
          path |-> <<>>, symlinks |-> NoSymlinks]
    ELSE [err |-> "ok", worktrees |-> worktrees \cup {slug},
          branches |-> branches \cup {slug}, path |-> WorktreePath(slug),
          symlinks |-> IF config.autoSymlink
                       THEN createSymlinks(config.customSymlinks) ELSE NoSymlinks]

\* createWorktree: [err, worktrees, branches, path, symlinks]
createWorktree(slug, io, config) ==
    IF slug \in worktrees
    THEN [err |-> ErrWorktreeExists, worktrees |-> worktrees, branches |-> branches,
          path |-> <<>>, symlinks |-> NoSymlinks]
    ELSE IF slug \in branches
    THEN [err |-> ErrBranchExists, worktrees |-> worktrees, branches |-> branches,
          path |-> <<>>, symlinks |-> NoSymlinks]
    ELSE IF io # "ok"
    THEN [err |-> ErrCreateWorktree, worktrees |-> worktrees, branches |-> branches,
          path |-> <<>>, symlinks |-> NoSymlinks]
    ELSE [err |-> "ok", worktrees |-> worktrees \cup {slug},
          branches |-> branches \cup {slug}, path |-> WorktreePath(slug),
          symlinks |-> IF config.autoSymlink
                       THEN createSymlinks(config.customSymlinks) ELSE NoSymlinks]

-----------------------------------------------------------------------------
(* Calls of the worktree manager's operations *)

\* the call made last was a createWorktree(slug) that returned normally
JustCreated(slug) ==
    last.op = "createWorktree" /\ last.slug = slug /\ last.err = "ok"

CreateWorktreeCall(slugs, configs) ==
    \E slug \in slugs, io \in IoOutcomes, config \in configs :
        LET r == createWorktree(slug, io, config)
        IN  /\ worktrees' = r.worktrees
            /\ branches' = r.branches
            /\ IF r.err = "ok" /\ slug \in Slugs
               THEN /\ commits' = [commits EXCEPT ![slug] = {}]
                    /\ targetSince' = [targetSince EXCEPT ![slug] = {}]
                    /\ mergedInto' = mergedInto \ {slug}
               ELSE UNCHANGED <<commits, targetSince, mergedInto>>
            /\ last' = [op |-> "createWorktree", slug |-> slug,
                        config |-> config, err |-> r.err, path |-> r.path,
                        symlinks |-> r.symlinks,
                        hadDir |-> slug \in worktrees, hadBranch |-> slug \in branches,
                        changed |-> r.worktrees # worktrees \/ r.branches # branches]
            /\ UNCHANGED <<storedTasks, dirty, mergeHead, conflicted, mc>>
            /\ UNCHANGED <<diskVars, repo, args, cmd>>

RemoveWorktreeCall(slugs) ==
    \E slug \in slugs, io \in IoOutcomes, ioBranch \in IoOutcomes :
        LET r == removeWorktree(slug, io, ioBranch)
        IN  /\ worktrees' = r.worktrees
            /\ branches' = r.branches
            /\ dirty' = r.dirty
            /\ last' = [op |-> "removeWorktree", slug |-> slug, io |-> io,
                        ioBranch |-> ioBranch, err |-> r.err,
                        hadDir |-> slug \in worktrees,
                        afterCreate |-> JustCreated(slug)]
            /\ UNCHANGED <<storedTasks, commits, targetSince, mergedInto, mergeHead,
                           conflicted, mc>>
            /\ UNCHANGED <<diskVars, repo, args, cmd>>

MergeBranchCall(slugs) ==
    \E slug \in slugs, io \in MergeOutcomes :
        LET r == mergeBranch(slug, io)
            pulled == mergeBranch(slug, "ok")
        IN  /\ mergeHead' = r.git.mergeHead
            /\ conflicted' = r.git.conflicted
            /\ mergedInto' = r.git.mergedInto
            /\ commits' = r.git.commits
            /\ targetSince' = r.git.targetSince
            /\ last' = [op |-> "mergeBranch", slug |-> slug, io |-> io, err |-> r.err,
                        success |-> r.success,
                        asPulled |-> r = pulled]
            /\ UNCHANGED <<storedTasks, worktrees, branches, dirty, mc>>
            /\ UNCHANGED <<diskVars, repo, args, cmd>>

\* getDiffStats(slug) called for a task
GetDiffStatsCall ==
    \E slug \in Slugs, io \in IoOutcomes : \E edited \in EditedInputs(slug) :
        LET r == getDiffStats(slug, io, edited)
        IN  /\ last' = [op |-> "getDiffStats", slug |-> slug, io |-> io,
                        err |-> r.err, stats |-> r.stats,
                        mergeBase |-> diffStatMergeBase(slug),
                        wasDirty |-> slug \in dirty]
            /\ UNCHANGED <<storedTasks, gitVars, mc, diskVars, repo, args, cmd>>

\* the default branch resolved for a call that omits the base or target
GetDefaultBranchCall ==
    \E ioRemote \in IoOutcomes, io \in IoOutcomes :
        LET r == getDefaultBranch(repo, ioRemote, io)
        IN  /\ last' = [op |-> "getDefaultBranch", ioRemote |-> ioRemote,
                        io |-> io, err |-> r.err, branch |-> r.branch]
            /\ UNCHANGED <<storedTasks, gitVars, mc, diskVars, repo, args, cmd>>

-----------------------------------------------------------------------------
(* Commands.  One command runs at a time (mc.pc = "idle" when none does);  *)
(* the user may edit a working copy at any moment.                         *)

Idle == mc.pc = "idle" /\ cmd.name = "none"

\* the user edits files in a task's working copy
UserEdit ==
    \E slug \in worktrees :
        /\ slug \notin dirty
        /\ dirty' = dirty \cup {slug}
        /\ UNCHANGED <<storedTasks, last, worktrees, branches, commits, targetSince,
                       mergedInto, mergeHead, conflicted, mc>>
        /\ UNCHANGED <<diskVars, repo, args, cmd>>

\* the user commits the edits of a working copy: they change one file
UserCommit ==
    \E slug \in dirty, f \in Files :
        /\ dirty' = dirty \ {slug}
        /\ commits' = [commits EXCEPT ![slug] = @ \cup {f}]
        /\ UNCHANGED <<storedTasks, last, worktrees, branches, targetSince,
                       mergedInto, mergeHead, conflicted, mc>>
        /\ UNCHANGED <<diskVars, repo, args, cmd>>

\* the user resolves the conflicts left in the main working copy and commits
UserResolve ==
    /\ Idle
    /\ mergeHead # None
    /\ mergedInto' = mergedInto \cup {mergeHead}
    /\ commits' = [commits EXCEPT ![mergeHead] = {}]
    /\ targetSince' = TargetAfterMerge(mergeHead)
    /\ mergeHead' = None
    /\ conflicted' = {}
    /\ UNCHANGED <<storedTasks, last, worktrees, branches, dirty, mc>>
    /\ UNCHANGED <<diskVars, repo, args, cmd>>

\* the user resolves the conflicts left in the main working copy and stages
\* the files, without committing: the merge is still in progress
UserStage ==
    /\ Idle
    /\ mergeHead # None
    /\ conflicted # {}
    /\ conflicted' = {}
    /\ UNCHANGED <<storedTasks, last, worktrees, branches, dirty, commits,
                   targetSince, mergedInto, mergeHead, mc>>
    /\ UNCHANGED <<diskVars, repo, args, cmd>>

\* New.createTask / Interactive.handleCreateTask: createWorktree, then addTask
CreateTask(ios) ==
    \E slug \in Slugs, io \in ios, ioWrite \in ios, config \in ConfigInputs :
        LET w == createWorktree(slug, io, config)
            r == addTask(storedTasks, NewTaskRecord(slug), ioWrite)
        IN  /\ Idle
            /\ Len(storedTasks) < MaxTasks
            /\ worktrees' = w.worktrees
            /\ branches' = w.branches
            /\ IF w.err = "ok"
               THEN /\ commits' = [commits EXCEPT ![slug] = {}]
                    /\ targetSince' = [targetSince EXCEPT ![slug] = {}]
                    /\ mergedInto' = mergedInto \ {slug}
                    /\ storedTasks' = r.tasks
               ELSE UNCHANGED <<commits, targetSince, mergedInto, storedTasks>>
            /\ UNCHANGED <<last, dirty, mergeHead, conflicted, mc>>
            /\ UNCHANGED <<diskVars, repo, args, cmd>>

\* Interactive.handleCompleteTask (keys m, x, space, enter on an active task)
HandleCompleteTask ==
    \E slug \in Slugs, io \in IoOutcomes :
        LET active == getTasksByStatus(storedTasks, "active")
            r == updateTask(storedTasks, slug, [status |-> "merged"], io)
        IN  /\ Idle
            /\ \E i \in 1..Len(active) : active[i].slug = slug
            /\ storedTasks' = r.tasks
            /\ UNCHANGED <<last, gitVars, mc>>
            /\ UNCHANGED <<diskVars, repo, args, cmd>>

\* Interactive.handleDropTask (key d on an active task)
HandleDropTask ==
    \E slug \in Slugs, io \in IoOutcomes, ioBranch \in IoOutcomes, ioWrite \in IoOutcomes :
        LET active == getTasksByStatus(storedTasks, "active")
            w == removeWorktree(slug, io, ioBranch)
            r == removeTask(storedTasks, slug, ioWrite)
        IN  /\ Idle
            /\ \E i \in 1..Len(active) : active[i].slug = slug
            /\ worktrees' = w.worktrees
            /\ branches' = w.branches
            /\ dirty' = w.dirty
            /\ storedTasks' = IF w.err = "ok" THEN r.tasks ELSE storedTasks
            /\ UNCHANGED <<last, commits, targetSince, mergedInto, mergeHead,
                           conflicted, mc>>
            /\ UNCHANGED <<diskVars, repo, args, cmd>>

-----------------------------------------------------------------------------
(* MergeCommand: commands/merge.tsx.  mc.status is the React state, mc.pc  *)
(* the await the command is suspended at.  mc.seenTask, mc.seenDirty,      *)
(* mc.calls, mc.result, mc.aborted and mc.before record what the command   *)
(* saw and did.                                                            *)

McError(message) ==
    [mc EXCEPT !.status = "error", !.errorMessage = message, !.pc = "final"]

\* the command is started for a task
StartMerge ==
    \E task \in Slugs, noDelete \in BOOLEAN :
        /\ Idle
        /\ mc' = [mc EXCEPT !.task = task, !.noDelete = noDelete,
                            !.status = "loading", !.pc = "getTask",
                            !.before = [tasks |-> storedTasks, worktrees |-> worktrees,
                                        branches |-> branches]]
        /\ UNCHANGED <<storedTasks, last, gitVars>>
        /\ UNCHANGED <<diskVars, repo, args, cmd>>

\* loadTaskInfo: getTask and the checks on the record
LoadGetTask ==
    LET taskData == getTask(storedTasks, mc.task)
        seen == [mc EXCEPT !.seenTask = <<getTask(storedTasks, mc.task)>>]
    IN  /\ mc.pc = "getTask"
        /\ mc' = IF taskData = <<>>
                 THEN [McError("Task not found") EXCEPT !.seenTask = seen.seenTask]
                 ELSE IF taskData[1].status # "active"
                 THEN [McError("Only active tasks can be merged") EXCEPT
                          !.seenTask = seen.seenTask]
                 ELSE [seen EXCEPT !.status = "checking", !.pc = "hasUncommittedChanges"]
        /\ UNCHANGED <<storedTasks, last, gitVars>>
        /\ UNCHANGED <<diskVars, repo, args, cmd>>

\* loadTaskInfo: hasUncommittedChanges
LoadCheckChanges(ios) ==
    \E io \in ios :
        LET r == hasUncommittedChanges(mc.task, io)
            seenDirty == IF io = "ok" /\ mc.task \in worktrees
                         THEN (IF mc.task \in dirty THEN "dirty" ELSE "clean")
                         ELSE "unknown"
        IN  /\ mc.pc = "hasUncommittedChanges"
            /\ mc' = IF r.err # "ok"
                     THEN [McError(r.err) EXCEPT !.seenDirty = seenDirty]
                     ELSE IF r.value
                     THEN [McError("Task has uncommitted changes") EXCEPT
                              !.seenDirty = seenDirty]
                     ELSE [mc EXCEPT !.seenDirty = seenDirty, !.pc = "getDiffStats"]
            /\ UNCHANGED <<storedTasks, last, gitVars>>
            /\ UNCHANGED <<diskVars, repo, args, cmd>>

\* loadTaskInfo: getDiffStats, then the confirmation prompt
LoadDiffStats(ios) ==
    \E io \in ios, edited \in EditedInputs(mc.task) :
        LET r == getDiffStats(mc.task, io, edited)
        IN  /\ mc.pc = "getDiffStats"
            /\ mc' = IF r.err # "ok" THEN McError(r.err)
                     ELSE [mc EXCEPT !.status = "confirming", !.pc = "prompt"]
            /\ UNCHANGED <<storedTasks, last, gitVars>>
            /\ UNCHANGED <<diskVars, repo, args, cmd>>

\* useInput while confirming: 'y' starts handleMerge
AnswerYes ==
    /\ mc.status = "confirming"
    /\ mc.pc = "prompt"
    /\ mc' = [mc EXCEPT !.answeredYes = TRUE, !.status = "merging",
                        !.pc = "mergeBranch"]
    /\ UNCHANGED <<storedTasks, last, gitVars>>
    /\ UNCHANGED <<diskVars, repo, args, cmd>>

\* useInput: 'n' or escape while confirming, any key in a final state: exit()
McIdle ==
    [task |-> None, noDelete |-> FALSE, status |-> "none", pc |-> "idle",
     errorMessage |-> "", conflicts |-> {}, calls |-> <<>>,
     seenTask |-> <<>>, seenDirty |-> "unknown", answeredYes |-> FALSE,
     result |-> "none", thrown |-> "", aborted |-> "none", abortFound |-> None,
     before |-> <<>>]

Exit ==
    /\ \/ mc.status = "confirming" /\ mc.pc = "prompt"
       \/ mc.status \in {"conflict", "success", "error"} /\ mc.pc = "final"
    /\ mc' = McIdle
    /\ UNCHANGED <<storedTasks, last, gitVars>>
    /\ UNCHANGED <<diskVars, repo, args, cmd>>

\* handleMerge: the catch clause is entered with the error thrown
McThrown(m, message) == [m EXCEPT !.thrown = message, !.pc = "abortMerge"]

\* handleMerge: mergeBranch
HandleMergeBranch(ios) ==
    \E io \in ios :
        LET r == mergeBranch(mc.task, io)
            called == [mc EXCEPT !.calls = Append(@, "mergeBranch")]
        IN  /\ mc.pc = "mergeBranch"
            /\ mergeHead' = r.git.mergeHead
            /\ conflicted' = r.git.conflicted
            /\ mergedInto' = r.git.mergedInto
            /\ commits' = r.git.commits
            /\ targetSince' = r.git.targetSince
            /\ mc' = IF r.err # "ok" THEN McThrown(called, r.err)
                     ELSE IF ~r.success
                     THEN [called EXCEPT !.result = "conflict", !.conflicts = r.conflicts,
                                         !.status = "conflict", !.pc = "final"]
                     ELSE [called EXCEPT !.result = "success", !.pc = "updateTask"]
            /\ UNCHANGED <<storedTasks, last, worktrees, branches, dirty>>
            /\ UNCHANGED <<diskVars, repo, args, cmd>>

\* handleMerge: updateTask(task, {status: 'merged'})
HandleUpdateTask(ios) ==
    \E io \in ios :
        LET r == updateTask(storedTasks, mc.task, [status |-> "merged"], io)
            called == [mc EXCEPT !.calls = Append(@, "updateTask")]
        IN  /\ mc.pc = "updateTask"
            /\ storedTasks' = r.tasks
            /\ mc' = IF r.err # "ok" THEN McThrown(called, r.err)
                     ELSE IF ~mc.noDelete THEN [called EXCEPT !.pc = "removeWorktree"]
                     ELSE [called EXCEPT !.status = "success", !.pc = "final"]
            /\ UNCHANGED <<last, gitVars>>
            /\ UNCHANGED <<diskVars, repo, args, cmd>>

\* handleMerge: removeWorktree(task)
HandleRemoveWorktree(ios) ==
    \E io \in ios, ioBranch \in ios :
        LET r == removeWorktree(mc.task, io, ioBranch)
            called == [mc EXCEPT !.calls = Append(@, "removeWorktree")]
        IN  /\ mc.pc = "removeWorktree"
            /\ worktrees' = r.worktrees
            /\ branches' = r.branches
            /\ dirty' = r.dirty
            /\ mc' = IF r.err # "ok" THEN McThrown(called, r.err)
                     ELSE [called EXCEPT !.status = "success", !.pc = "final"]
            /\ UNCHANGED <<storedTasks, last, commits, targetSince, mergedInto,
                           mergeHead, conflicted>>
            /\ UNCHANGED <<diskVars, repo, args, cmd>>

\* handleMerge whose catch clause lets the error of abortMerge replace the
\* error caught
HandleAbortSurfacesAbortError ==
    \E io \in IoOutcomes :
        LET r == abortMerge(io)
        IN  /\ mc.pc = "abortMerge"
            /\ mergeHead' = r.mergeHead
            /\ conflicted' = r.conflicted
            /\ mc' = [mc EXCEPT !.calls = Append(@, "abortMerge"),
                                !.aborted = IF r.err = "ok" THEN "returned" ELSE "threw",
                                !.abortFound = mergeHead,
                                !.errorMessage = IF r.err = "ok" THEN mc.thrown ELSE r.err,
                                !.status = "error", !.pc = "final"]
            /\ UNCHANGED <<storedTasks, last, worktrees, branches, dirty, commits,
                           targetSince, mergedInto>>
            /\ UNCHANGED <<diskVars, repo, args, cmd>>

\* handleMerge, catch clause: abortMerge with its own errors ignored, then
\* the error state with the message of the error caught
HandleAbort ==
    \E io \in IoOutcomes :
        LET r == abortMerge(io)
        IN  /\ mc.pc = "abortMerge"
            /\ mergeHead' = r.mergeHead
            /\ conflicted' = r.conflicted
            /\ mc' = [mc EXCEPT !.calls = Append(@, "abortMerge"),
                                !.aborted = IF r.err = "ok" THEN "returned" ELSE "threw",
                                !.abortFound = mergeHead,
                                !.errorMessage = mc.thrown,
                                !.status = "error", !.pc = "final"]
            /\ UNCHANGED <<storedTasks, last, worktrees, branches, dirty, commits,
                           targetSince, mergedInto>>
            /\ UNCHANGED <<diskVars, repo, args, cmd>>

-----------------------------------------------------------------------------
(* DropCommand: commands/drop.tsx.  cmd.status is the React state, cmd.pc  *)
(* the await the command is suspended at.  cmd.calls, cmd.dirtyAtCheck,    *)
(* cmd.prompted, cmd.confirmed and cmd.before record what the command saw  *)
(* and did.                                                                *)

CmdIdle == [name |-> "none", status |-> "none", pc |-> "idle"]

ErrWorktreeStatus == "Failed to get worktree status"

\* getWorktreeStatus: [err, isClean]
getWorktreeStatus(slug, io) ==
    IF ~findWorktree(slug) THEN [err |-> ErrWorktreeNotFound, isClean |-> TRUE]
    ELSE IF io # "ok" THEN [err |-> ErrWorktreeStatus, isClean |-> TRUE]
    ELSE [err |-> "ok", isClean |-> slug \notin dirty]

\* what the user types at the prompt of the drop command
ConfirmInputs == Slugs \cup {<<"y">>}

DropError(message) ==
    [cmd EXCEPT !.status = "error", !.error = message, !.pc = "final"]

\* hive drop <task> [--force]
StartDrop ==
    \E task \in Slugs, force \in BOOLEAN :
        /\ Idle
        /\ cmd' = [name |-> "drop", task |-> task, force |-> force,
                   status |-> "checking", pc |-> "getTask", error |-> "",
                   confirmation |-> <<>>, calls |-> <<>>,
                   dirtyAtCheck |-> "unknown", prompted |-> FALSE,
                   confirmed |-> FALSE,
                   before |-> [recorded |-> getTask(storedTasks, task) # <<>>,
                               worktree |-> task \in worktrees]]
        /\ UNCHANGED <<storedTasks, last, gitVars, mc, diskVars, repo, args>>

\* checkTask: getTask; with --force straight to the removal
DropGetTask ==
    /\ cmd.name = "drop"
    /\ cmd.pc = "getTask"
    /\ cmd' = IF getTask(storedTasks, cmd.task) = <<>>
              THEN DropError("Task not found")
              ELSE IF cmd.force
              THEN [cmd EXCEPT !.status = "dropping", !.pc = "removeWorktree"]
              ELSE [cmd EXCEPT !.pc = "getWorktreeStatus"]
    /\ UNCHANGED <<storedTasks, last, gitVars, mc, diskVars, repo, args>>

\* checkTask without --force: getWorktreeStatus; a failure of the check is
\* caught with a warning and the command goes on to the removal
DropCheckStatus(ios) ==
    \E io \in ios :
        LET r == getWorktreeStatus(cmd.task, io)
            seen == [cmd EXCEPT !.dirtyAtCheck =
                                   IF cmd.task \in dirty THEN "dirty" ELSE "clean"]
        IN  /\ cmd.name = "drop"
            /\ cmd.pc = "getWorktreeStatus"
            /\ cmd' = IF r.err = "ok" /\ ~r.isClean
                      THEN [seen EXCEPT !.status = "confirming", !.pc = "prompt",
                                        !.prompted = TRUE]
                      ELSE [seen EXCEPT !.status = "dropping", !.pc = "removeWorktree"]
            /\ UNCHANGED <<storedTasks, last, gitVars, mc, diskVars, repo, args>>

\* TextInput.onChange while confirming: the slug typed starts the removal
DropType ==
    \E value \in ConfirmInputs :
        /\ cmd.name = "drop"
        /\ cmd.status = "confirming"
        /\ cmd' = IF value = cmd.task
                  THEN [cmd EXCEPT !.confirmation = value, !.confirmed = TRUE,
                                   !.status = "dropping", !.pc = "removeWorktree"]
                  ELSE [cmd EXCEPT !.confirmation = value]
        /\ UNCHANGED <<storedTasks, last, gitVars, mc, diskVars, repo, args>>

\* dropTask: removeWorktree
DropRemoveWorktree(ios) ==
    \E io \in ios, ioBranch \in ios :
        LET r == removeWorktree(cmd.task, io, ioBranch)
            called == [cmd EXCEPT !.calls = Append(@, "removeWorktree")]
        IN  /\ cmd.name = "drop"
            /\ cmd.pc = "removeWorktree"
            /\ worktrees' = r.worktrees
            /\ branches' = r.branches
            /\ dirty' = r.dirty
            /\ cmd' = IF r.err # "ok"
                      THEN [called EXCEPT !.status = "error", !.error = r.err,
                                          !.pc = "final"]
                      ELSE [called EXCEPT !.pc = "removeTask"]
            /\ UNCHANGED <<storedTasks, last, commits, targetSince, mergedInto,
                           mergeHead, conflicted, mc, diskVars, repo, args>>

\* dropTask: removeTask
DropRemoveTask(ios) ==
    \E io \in ios :
        LET r == removeTask(storedTasks, cmd.task, io)
            called == [cmd EXCEPT !.calls = Append(@, "removeTask")]
        IN  /\ cmd.name = "drop"
            /\ cmd.pc = "removeTask"
            /\ storedTasks' = r.tasks
            /\ cmd' = IF r.err # "ok"
                      THEN [called EXCEPT !.status = "error", !.error = r.err,
                                          !.pc = "final"]
                      ELSE IF ~r.removed
                      THEN [called EXCEPT !.status = "error", !.pc = "final",
                               !.error = "Failed to remove task from tasks.json"]
                      ELSE [called EXCEPT !.status = "success", !.pc = "final"]
            /\ UNCHANGED <<last, gitVars, mc, diskVars, repo, args>>

\* the command has rendered its final state, or the user leaves the prompt
DropExit ==
    /\ cmd.name = "drop"
    /\ cmd.pc \in {"final", "prompt"}
    /\ cmd' = CmdIdle
    /\ UNCHANGED <<storedTasks, last, gitVars, mc, diskVars, repo, args>>

-----------------------------------------------------------------------------
(* CleanCommand (commands/merge.tsx).  cmd.k is the position of            *)
(* cleanAllTasks in its list, cmd.currentIndex the task the prompt is      *)
(* about (counted from 1), cmd.before the registry and the working copies  *)
(* the command started with.                                               *)

\* the slugs of a list of tasks
SlugsOf(tasks) == { tasks[i].slug : i \in 1..Len(tasks) }

\* hive clean [--force] [--dry-run]
StartClean ==
    \E force \in BOOLEAN, dryRun \in BOOLEAN :
        /\ Idle
        /\ cmd' = [name |-> "clean", force |-> force, dryRun |-> dryRun,
                   status |-> "loading", pc |-> "findStaleTasks",
                   staleTasks |-> <<>>, currentIndex |-> 1, k |-> 1,
                   cleanedCount |-> 0, calls |-> <<>>,
                   before |-> [tasks |-> storedTasks, worktrees |-> worktrees,
                               branches |-> branches]]
        /\ UNCHANGED <<storedTasks, last, gitVars, mc, diskVars, repo, args>>

\* findStaleTasks in which --force wins over --dry-run
FindStaleTasksForceFirst ==
    \E old \in SUBSET Slugs :
        LET activeTasks == getTasksByStatus(storedTasks, "active")
            isStale(t) == t.slug \in old
            stale == SelectSeq(activeTasks, isStale)
            found == [cmd EXCEPT !.staleTasks = stale]
        IN  /\ cmd.name = "clean"
            /\ cmd.pc = "findStaleTasks"
            /\ old \subseteq SlugsOf(activeTasks)
            /\ cmd' = IF stale = <<>>
                      THEN [found EXCEPT !.status = "done", !.pc = "final"]
                      ELSE IF cmd.force \/ cmd.dryRun
                      THEN IF cmd.dryRun /\ ~cmd.force
                           THEN [found EXCEPT !.status = "done", !.pc = "final"]
                           ELSE [found EXCEPT !.status = "cleaning",
                                              !.pc = "removeWorktree"]
                      ELSE [found EXCEPT !.status = "confirming", !.pc = "prompt"]
            /\ UNCHANGED <<storedTasks, last, gitVars, mc, diskVars, repo, args>>

\* findStaleTasks: the active tasks whose last activity is older than the
\* limit (any of them may be), then the state that follows
FindStaleTasks ==
    \E old \in SUBSET Slugs :
        LET activeTasks == getTasksByStatus(storedTasks, "active")
            isStale(t) == t.slug \in old
            stale == SelectSeq(activeTasks, isStale)
            found == [cmd EXCEPT !.staleTasks = stale]
        IN  /\ cmd.name = "clean"
            /\ cmd.pc = "findStaleTasks"
            /\ old \subseteq SlugsOf(activeTasks)
            /\ cmd' = IF stale = <<>>
                      THEN [found EXCEPT !.status = "done", !.pc = "final"]
                      ELSE IF cmd.force \/ cmd.dryRun
                      THEN IF cmd.dryRun
                           THEN [found EXCEPT !.status = "done", !.pc = "final"]
                           ELSE [found EXCEPT !.status = "cleaning",
                                              !.pc = "removeWorktree"]
                      ELSE [found EXCEPT !.status = "confirming", !.pc = "prompt"]
            /\ UNCHANGED <<storedTasks, last, gitVars, mc, diskVars, repo, args>>

\* the task cleanAllTasks or cleanCurrentTask is working on
CleanTask ==
    IF cmd.status = "cleaning" THEN cmd.staleTasks[cmd.k]
    ELSE cmd.staleTasks[cmd.currentIndex]

\* after a task was cleaned, skipped or failed: the next one, or done
CleanNext(c) ==
    IF c.status = "cleaning"
    THEN IF c.k >= Len(c.staleTasks)
         THEN [c EXCEPT !.status = "done", !.pc = "final"]
         ELSE [c EXCEPT !.k = @ + 1, !.pc = "removeWorktree"]
    ELSE IF c.currentIndex >= Len(c.staleTasks)
         THEN [c EXCEPT !.status = "done", !.pc = "final"]
         ELSE [c EXCEPT !.currentIndex = @ + 1, !.pc = "prompt"]

\* useInput while confirming: 'y' starts cleanCurrentTask, 'n' skips the task
CleanAnswer ==
    \E input \in {"y", "n"} :
        /\ cmd.name = "clean"
        /\ cmd.status = "confirming"
        /\ cmd.pc = "prompt"
        /\ cmd' = IF input = "y" THEN [cmd EXCEPT !.pc = "removeWorktree"]
                  ELSE CleanNext(cmd)
        /\ UNCHANGED <<storedTasks, last, gitVars, mc, diskVars, repo, args>>

\* cleanAllTasks / cleanCurrentTask: removeWorktree; an error is caught and
\* the command moves on
CleanRemoveWorktree(ios) ==
    \E io \in ios, ioBranch \in ios :
        LET r == removeWorktree(CleanTask.slug, io, ioBranch)
            called == [cmd EXCEPT !.calls = Append(@, "removeWorktree")]
        IN  /\ cmd.name = "clean"
            /\ cmd.pc = "removeWorktree"
            /\ worktrees' = r.worktrees
            /\ branches' = r.branches
            /\ dirty' = r.dirty
            /\ cmd' = IF r.err # "ok" THEN CleanNext(called)
                      ELSE [called EXCEPT !.pc = "removeTask"]
            /\ UNCHANGED <<storedTasks, last, commits, targetSince, mergedInto,
                           mergeHead, conflicted, mc, diskVars, repo, args>>

\* cleanAllTasks / cleanCurrentTask: removeTask, then the count
CleanRemoveTask(ios) ==
    \E io \in ios :
        LET r == removeTask(storedTasks, CleanTask.slug, io)
            called == [cmd EXCEPT !.calls = Append(@, "removeTask")]
        IN  /\ cmd.name = "clean"
            /\ cmd.pc = "removeTask"
            /\ storedTasks' = r.tasks
            /\ cmd' = IF r.err # "ok" THEN CleanNext(called)
                      ELSE CleanNext([called EXCEPT !.cleanedCount = @ + 1])
            /\ UNCHANGED <<last, gitVars, mc, diskVars, repo, args>>

\* useInput: escape while confirming, any key when done: exit()
CleanExit ==
    /\ cmd.name = "clean"
    /\ cmd.pc \in {"prompt", "final"}
    /\ cmd' = CmdIdle
    /\ UNCHANGED <<storedTasks, last, gitVars, mc, diskVars, repo, args>>

-----------------------------------------------------------------------------
(* Diff analysis of several tasks *)

\* the most analyses handed to getOverlappingFiles, the most files in one
MaxAnalyses == 3
MaxChanged == 2

AnalysisPaths == {"x.ts", "y.ts", "z.ts"}

\* the lists of at most n distinct changed files
RECURSIVE FileLists(_)
FileLists(n) ==
    IF n = 0 THEN {<<>>}
    ELSE LET shorter == FileLists(n - 1)
         IN  shorter \cup
             { Append(fl, [path |-> f]) :
                 fl \in {l \in shorter : Len(l) = n - 1},
                 f \in AnalysisPaths }

DistinctPaths(fl) == \A i, j \in 1..Len(fl) : fl[i].path = fl[j].path => i = j

\* TaskDiffAnalysis, as far as getOverlappingFiles reads it; two analyses may
\* be of tasks with the same slug
AnalysisInputs ==
    { [task |-> [slug |-> sl], files |-> fl] :
        sl \in WriterSlugs, fl \in {l \in FileLists(MaxChanged) : DistinctPaths(l)} }

RECURSIVE AnalysisLists(_)
AnalysisLists(n) ==
    IF n = 0 THEN {<<>>}
    ELSE LET shorter == AnalysisLists(n - 1)
         IN  shorter \cup
             { Append(tas, ta) :
                 tas \in {l \in shorter : Len(l) = n - 1}, ta \in AnalysisInputs }

\* fileMap.get(path).add(slug), the entry made first when the path is new:
\* the Map and its Sets keep insertion order
MapAdd(fileMap, path, slug) ==
    IF \E k \in 1..Len(fileMap) : fileMap[k].file = path
    THEN [k \in 1..Len(fileMap) |->
            IF fileMap[k].file = path
                 /\ ~\E t \in 1..Len(fileMap[k].tasks) : fileMap[k].tasks[t] = slug
            THEN [fileMap[k] EXCEPT !.tasks = Append(@, slug)]
            ELSE fileMap[k]]
    ELSE Append(fileMap, [file |-> path, tasks |-> <<slug>>])

RECURSIVE MapAddFiles(_, _, _)
MapAddFiles(fileMap, changed, slug) ==
    IF changed = <<>> THEN fileMap
    ELSE MapAddFiles(MapAdd(fileMap, Head(changed).path, slug), Tail(changed), slug)

RECURSIVE BuildFileMap(_, _)
BuildFileMap(fileMap, taskAnalyses) ==
    IF taskAnalyses = <<>> THEN fileMap
    ELSE BuildFileMap(MapAddFiles(fileMap, Head(taskAnalyses).files,
                                  Head(taskAnalyses).task.slug),
                      Tail(taskAnalyses))

\* getOverlappingFiles that reports every changed file
getOverlappingFilesAll(taskAnalyses) ==
    LET overlapping(e) == Len(e.tasks) > 0
    IN  SelectSeq(BuildFileMap(<<>>, taskAnalyses), overlapping)

\* getOverlappingFiles: the entries of the map with more than one slug
getOverlappingFiles(taskAnalyses) ==
    LET overlapping(e) == Len(e.tasks) > 1
    IN  SelectSeq(BuildFileMap(<<>>, taskAnalyses), overlapping)

\* the text of git diff for a list of changes, line by line, each line the
\* list of its words: for every file a header line naming the file, a
\* marker line for a new or deleted file, the index line, the two file
\* lines, and a hunk
ChangeTypes == {"added", "modified", "deleted"}

FileDiff(change) ==
    LET header == << <<"diff", "--git", "a/", change.path, "b/", change.path>> >>
        marker == IF change.type = "added" THEN << <<"new", "file", "mode", "100644">> >>
                  ELSE IF change.type = "deleted"
                  THEN << <<"deleted", "file", "mode", "100644">> >>
                  ELSE <<>>
        index == << <<"index", "83db48f..bf269f4">> >>
        from == IF change.type = "added" THEN << <<"---", "/dev/null">> >>
                ELSE << <<"---", "a/", change.path>> >>
        to == IF change.type = "deleted" THEN << <<"+++", "/dev/null">> >>
              ELSE << <<"+++", "b/", change.path>> >>
        hunk == IF change.type = "deleted"
                THEN << <<"@@", "-1", "+0,0", "@@">>, <<"-", "export", "{}">> >>
                ELSE << <<"@@", "-0,0", "+1", "@@">>, <<"+", "export", "{}">> >>
    IN  header \o marker \o index \o from \o to \o hunk

RECURSIVE GitDiff(_)
GitDiff(changes) ==
    IF changes = <<>> THEN <<>> ELSE FileDiff(Head(changes)) \o GitDiff(Tail(changes))

\* the lists of at most n changes of distinct files
RECURSIVE ChangeLists(_)
ChangeLists(n) ==
    IF n = 0 THEN {<<>>}
    ELSE LET shorter == ChangeLists(n - 1)
         IN  shorter \cup
             { Append(cl, [path |-> f, type |-> t]) :
                 cl \in {l \in shorter : Len(l) = n - 1},
                 f \in AnalysisPaths, t \in ChangeTypes }

\* determineChangeType(diff, filename), from line i on
RECURSIVE determineChangeTypeFrom(_, _, _)
determineChangeTypeFrom(lines, filename, i) ==
    IF i > Len(lines) THEN "modified"
    ELSE IF Includes(lines[i], <<filename>>) /\ Includes(lines[i], <<"new", "file">>)
    THEN "added"
    ELSE IF Includes(lines[i], <<filename>>)
              /\ Includes(lines[i], <<"deleted", "file">>)
    THEN "deleted"
    ELSE determineChangeTypeFrom(lines, filename, i + 1)

determineChangeType(diff, filename) == determineChangeTypeFrom(diff, filename, 1)

\* getTaskDiffAnalysis: the changed files of the diff statistics, each with
\* the type found in the full diff
getTaskDiffAnalysis(changes) ==
    LET fullDiff == GitDiff(changes)
    IN  [k \in 1..Len(changes) |->
            [path |-> changes[k].path,
             type |-> determineChangeType(fullDiff, changes[k].path)]]

GetTaskDiffAnalysisCall ==
    /\ args.fn = "getTaskDiffAnalysis"
    /\ last' = [op |-> "getTaskDiffAnalysis",
                files |-> getTaskDiffAnalysis(args.changes)]
    /\ UNCHANGED <<storedTasks, gitVars, mc, diskVars, repo, args, cmd>>

GetOverlappingFilesCall ==
    /\ args.fn = "getOverlappingFiles"
    /\ last' = [op |-> "getOverlappingFiles",
                overlaps |-> getOverlappingFiles(args.taskAnalyses)]
    /\ UNCHANGED <<storedTasks, gitVars, mc, diskVars, repo, args, cmd>>

-----------------------------------------------------------------------------
(* Slugs made from descriptions (lib/utils.ts).  A description is a string,
   here a sequence of characters of a small alphabet: a lower-case letter,
   an upper-case letter, a digit, the space, the hyphen, a character of the
   remove option and a character that only the strict option removes. *)

MaxSlugLength == 50

MaxRuns == 5

Letters == {"a", "B", "b", "1"}

RemoveOption == {"!"}

RunInputs ==
    { [ch |-> "a", n |-> 1], [ch |-> "1", n |-> 48], [ch |-> "B", n |-> 1],
      [ch |-> " ", n |-> 1], [ch |-> "-", n |-> 1], [ch |-> "!", n |-> 1],
      [ch |-> "?", n |-> 1] }

RECURSIVE RunLists(_)
RunLists(n) ==
    IF n = 0 THEN {<<>>}
    ELSE RunLists(n - 1) \cup
         { Append(l, r) : l \in {l \in RunLists(n - 1) : Len(l) = n - 1},
                          r \in RunInputs }

RECURSIVE Expand(_)
Expand(runs) ==
    IF runs = <<>> THEN <<>>
    ELSE [i \in 1..Head(runs).n |-> Head(runs).ch] \o Expand(Tail(runs))

SlugDescriptions == { Expand(runs) : runs \in RunLists(MaxRuns) }

\* the replacement character counts as a space
ReplacementToSpace(string) ==
    [i \in DOMAIN string |-> IF string[i] = "-" THEN " " ELSE string[i]]

\* the remove option, then strict: only letters, digits and spaces stay
StrictKeeps(ch) == ch \notin RemoveOption /\ ch \in Letters \cup {" "}

RECURSIVE TrimStart(_)
TrimStart(string) ==
    IF string # <<>> /\ Head(string) = " " THEN TrimStart(Tail(string))
    ELSE string

RECURSIVE TrimEnd(_)
TrimEnd(string) ==
    IF string # <<>> /\ string[Len(string)] = " "
    THEN TrimEnd(SubSeq(string, 1, Len(string) - 1))
    ELSE string

StartsSpaces(mark) == mark.first

\* every run of spaces becomes one replacement character
SpacesToReplacement(string) ==
    LET marks == [i \in DOMAIN string |->
                    [ch    |-> string[i],
                     first |-> ~(string[i] = " " /\ i > 1 /\ string[i - 1] = " ")]]
        kept  == SelectSeq(marks, StartsSpaces)
    IN  [i \in DOMAIN kept |-> IF kept[i].ch = " " THEN "-" ELSE kept[i].ch]

toLowerCase(string) ==
    [i \in DOMAIN string |-> IF string[i] = "B" THEN "b" ELSE string[i]]

\* slugify(description, {lower: true, strict: true, remove: ...})
slugifyLib(string) ==
    toLowerCase(SpacesToReplacement(TrimEnd(TrimStart(
        SelectSeq(ReplacementToSpace(string), StrictKeeps)))))

\* zero-based index of the last ch of string, -1 when there is none
lastIndexOf(string, ch) ==
    LET at == {i \in DOMAIN string : string[i] = ch}
    IN  IF at = {} THEN -1
        ELSE (CHOOSE i \in at : \A j \in at : j <= i) - 1

generateSlug(description) ==
    LET slug == slugifyLib(description)
    IN  IF Len(slug) <= MaxSlugLength THEN slug
        ELSE LET truncated  == SubSeq(slug, 1, MaxSlugLength)
                 lastHyphen == lastIndexOf(truncated, "-")
             IN  IF lastHyphen > 0 THEN SubSeq(truncated, 1, lastHyphen)
                 ELSE truncated

GenerateSlugCall ==
    /\ args.fn = "generateSlug"
    /\ last' = [op |-> "generateSlug", description |-> args.description,
                slug |-> generateSlug(args.description)]
    /\ UNCHANGED <<storedTasks, gitVars, mc, diskVars, repo, args, cmd>>

-----------------------------------------------------------------------------
(* Initial state: a repository with no tasks, no command running *)

InitProgram ==
    /\ storedTasks = <<>>
    /\ last = [op |-> "none"]
    /\ worktrees = {}
    /\ branches = {}
    /\ dirty = {}
    /\ commits = [s \in Slugs |-> {}]
    /\ targetSince = [s \in Slugs |-> {}]
    /\ mergedInto = {}
    /\ mergeHead = None
    /\ conflicted = {}
    /\ mc = McIdle
    /\ files = [path \in Paths |-> NoFile]
    /\ procs = [p \in Procs |-> ProcIdle]
    /\ cmd = CmdIdle

Init == InitProgram /\ repo = DefaultRepo /\ args = NoArgs

\* every repository getDefaultBranch may be asked about
InitDefaultBranch ==
    /\ InitProgram
    /\ args = NoArgs
    /\ repo \in {r \in RepoInputs : ValidRepo(r)}

NextDefaultBranch == GetDefaultBranchCall

SpecDefaultBranch == InitDefaultBranch /\ [][NextDefaultBranch]_vars

NextRegistry == AddTaskCall \/ UpdateTaskCall \/ RemoveTaskCall

SpecRegistry == Init /\ [][NextRegistry]_vars

\* working copies created and removed, for tasks called a, b-1 and main
NextWorktrees ==
    \/ CreateWorktreeCall(GitSlugInputs, ConfigInputs) \/ RemoveWorktreeCall(GitSlugInputs)
    \/ UserEdit

SpecWorktrees == Init /\ [][NextWorktrees]_vars

\* the worktree manager called directly, the user working in the copies
NextGit ==
    \/ CreateWorktreeCall(Slugs, ConfigInputs) \/ RemoveWorktreeCall(Slugs) \/ MergeBranchCall(Slugs)
    \/ UserEdit \/ UserCommit \/ UserResolve

SpecGit == Init /\ [][NextGit]_vars

\* working copies created, merged and removed, for tasks called a, b-1 and
\* main
NextMain ==
    \/ CreateWorktreeCall(GitSlugInputs, {DEFAULT_CONFIG})
    \/ RemoveWorktreeCall(GitSlugInputs)
    \/ MergeBranchCall(GitSlugInputs)

SpecMain == Init /\ [][NextMain]_vars

\* branches that are worked on and merged, and their diff statistics
NextDiff ==
    \/ CreateWorktreeCall(Slugs, ConfigInputs) \/ MergeBranchCall(Slugs) \/ GetDiffStatsCall
    \/ UserEdit \/ UserCommit \/ UserResolve

SpecDiff == Init /\ [][NextDiff]_vars

\* working copies created in every main working copy of CopyInputs
InitSymlinks ==
    /\ InitProgram
    /\ args = NoArgs
    /\ repo \in CopyInputs

NextSymlinks ==
    \/ CreateWorktreeCall({<<"a">>}, SymlinkConfigInputs)
    \/ RemoveWorktreeCall({<<"a">>})

SpecSymlinks == InitSymlinks /\ [][NextSymlinks]_vars

\* getOverlappingFiles applied to every list of AnalysisLists
InitOverlaps ==
    /\ InitProgram
    /\ repo = DefaultRepo
    /\ args \in { [fn |-> "getOverlappingFiles", taskAnalyses |-> tas] :
                     tas \in AnalysisLists(MaxAnalyses) }

NextOverlaps == GetOverlappingFilesCall

SpecOverlaps == InitOverlaps /\ [][NextOverlaps]_vars

\* getTaskDiffAnalysis applied to the diff of every list of ChangeLists
InitChangeTypes ==
    /\ InitProgram
    /\ repo = DefaultRepo
    /\ args \in { [fn |-> "getTaskDiffAnalysis", changes |-> cl] :
                     cl \in {l \in ChangeLists(MaxChanged) : DistinctPaths(l)} }

NextChangeTypes == GetTaskDiffAnalysisCall

SpecChangeTypes == InitChangeTypes /\ [][NextChangeTypes]_vars

\* generateSlug applied to each description
InitSlugs ==
    /\ InitProgram
    /\ repo = DefaultRepo
    /\ args \in { [fn |-> "generateSlug", description |-> d] :
                     d \in SlugDescriptions }

NextSlugs == GenerateSlugCall

SpecSlugs == InitSlugs /\ [][NextSlugs]_vars

\* tasks created and worked on, the drop command and the clean command
NextCommands ==
    \/ CreateTask(IoOutcomes) \/ UserEdit
    \/ StartDrop \/ DropGetTask \/ DropCheckStatus(IoOutcomes) \/ DropType
    \/ DropRemoveWorktree(IoOutcomes) \/ DropRemoveTask(IoOutcomes) \/ DropExit
    \/ StartClean \/ FindStaleTasks \/ CleanAnswer
    \/ CleanRemoveWorktree(IoOutcomes) \/ CleanRemoveTask(IoOutcomes) \/ CleanExit

SpecCommands == Init /\ [][NextCommands]_vars

\* one process at a time runs registry operations
NextSingleWriter ==
    \/ Call("p1") \/ ReadStep("p1") \/ OpenTemp("p1") \/ WriteTemp("p1")
    \/ Rename("p1") \/ Crash("p1")

SpecSingleWriter == Init /\ [][NextSingleWriter]_vars

\* two processes run registry operations at the same time
NextConcurrent ==
    \/ \E p \in Procs : Call(p)
    \/ \E p \in Procs : ReadStep(p)
    \/ \E p \in Procs : OpenTemp(p)
    \/ \E p \in Procs : WriteTemp(p)
    \/ \E p \in Procs : Rename(p)
    \/ \E p \in Procs : Crash(p)

SpecConcurrent == Init /\ [][NextConcurrent]_vars

Next ==
    \/ UserEdit \/ UserCommit \/ UserResolve
    \/ CreateTask(IoOutcomes) \/ HandleCompleteTask \/ HandleDropTask
    \/ StartMerge \/ LoadGetTask \/ LoadCheckChanges(IoOutcomes)
    \/ LoadDiffStats(IoOutcomes) \/ AnswerYes \/ Exit
    \/ HandleMergeBranch(MergeOutcomes) \/ HandleUpdateTask(IoOutcomes)
    \/ HandleRemoveWorktree(IoOutcomes) \/ HandleAbort

Spec == Init /\ [][Next]_vars

\* the create, merge, drop and clean commands run one after the other, every
\* call of git and of the file system succeeding
Reliable == {"ok"}

NextReliable ==
    \/ UserEdit \/ UserCommit \/ UserResolve
    \/ CreateTask(Reliable)
    \/ StartMerge \/ LoadGetTask \/ LoadCheckChanges(Reliable)
    \/ LoadDiffStats(Reliable) \/ AnswerYes \/ Exit
    \/ HandleMergeBranch(Reliable) \/ HandleUpdateTask(Reliable)
    \/ HandleRemoveWorktree(Reliable)
    \/ StartDrop \/ DropGetTask \/ DropCheckStatus(Reliable) \/ DropType
    \/ DropRemoveWorktree(Reliable) \/ DropRemoveTask(Reliable) \/ DropExit
    \/ StartClean \/ FindStaleTasks \/ CleanAnswer
    \/ CleanRemoveWorktree(Reliable) \/ CleanRemoveTask(Reliable) \/ CleanExit

SpecReliable == Init /\ [][NextReliable]_vars

\* the commands, and a user who may stage a resolution before committing it
NextStaged == Next \/ UserStage

SpecStaged == Init /\ [][NextStaged]_vars

-----------------------------------------------------------------------------
(* Properties *)

Range(seq) == { seq[i] : i \in 1..Len(seq) }

\* the status the registry holds for a slug ("none" when it holds no record)
StatusOf(tasks, slug) ==
    IF getTask(tasks, slug) = <<>> THEN "none" ELSE getTask(tasks, slug)[1].status

\* the running merge command has changed neither registry, worktrees nor branches
McLeftUnchanged ==
    /\ storedTasks = mc.before.tasks
    /\ worktrees = mc.before.worktrees
    /\ branches = mc.before.branches

\* what loadTaskInfo saw rules the merge out
McLoadRejects ==
    \/ /\ mc.seenTask # <<>>
       /\ \/ mc.seenTask[1] = <<>>
          \/ mc.seenTask[1][1].status # "active"
    \/ mc.seenDirty = "dirty"

\* C1: the merge command calls mergeBranch only after loadTaskInfo found the
\* task in the registry with status active and its worktree clean and the
\* user answered 'y'; when the task is missing, not active or dirty the
\* command is in its error state, having called none of mergeBranch,
\* updateTask and removeWorktree and changed neither registry, worktrees nor
\* branches.
C1_MergeOnlyAfterChecks ==
    /\ "mergeBranch" \in Range(mc.calls) =>
          /\ mc.seenTask # <<>>
          /\ mc.seenTask[1] # <<>>
          /\ mc.seenTask[1][1].status = "active"
          /\ mc.seenDirty = "clean"
          /\ mc.answeredYes
    /\ McLoadRejects =>
          /\ mc.status = "error"
          /\ mc.calls = <<>>
          /\ McLeftUnchanged

C1_Witness ==
    /\ mc.calls = <<"mergeBranch">>
    /\ mc.answeredYes
    /\ mc.seenDirty = "clean"

\* C2: a record's status becomes merged only in the updateTask step of a
\* merge command whose mergeBranch call for that slug returned success.
C2_MergedOnlyByMerge ==
    [][\A slug \in Slugs :
          (StatusOf(storedTasks, slug) = "active" /\ StatusOf(storedTasks', slug) = "merged")
          => (mc.task = slug /\ mc.pc = "updateTask" /\ mc.result = "success")]_vars

\* C3: in the success state mergeBranch returned {success: true, conflicts:
\* []}, the registry holds status merged for the task, without noDelete the
\* task has no worktree any more, with noDelete worktree and branch exist.
C3_SuccessState ==
    mc.status = "success" =>
        /\ mc.result = "success"
        /\ mc.conflicts = {}
        /\ StatusOf(storedTasks, mc.task) = "merged"
        /\ ~mc.noDelete => mc.task \notin worktrees
        /\ mc.noDelete => (mc.task \in worktrees /\ mc.task \in branches)

C3_Witness == mc.status = "success" /\ ~mc.noDelete /\ mc.task \notin worktrees

C5_AbortBeforeError ==
    mc.thrown # "" =>
        \/ mc.pc = "abortMerge" /\ mc.status = "merging"
        \/ /\ mc.status = "error"
           /\ mc.calls # <<>>
           /\ mc.calls[Len(mc.calls)] = "abortMerge"
           /\ mc.aborted \in {"returned", "threw"}
           /\ mc.errorMessage = mc.thrown
           /\ mc.errorMessage # ErrAbortMerge

C5_Witness == mc.status = "error" /\ mc.aborted = "threw" /\ mc.thrown = ErrMergeBranch

\* C6: abortMerge called when no merge is in progress returns normally.
C6_AbortMergeIdempotent ==
    (mc.aborted # "none" /\ mc.abortFound = None) => mc.aborted = "returned"

\* C7: in the conflict state no merge is in progress in the main working copy.
C7_ConflictMergeAborted ==
    mc.status = "conflict" => (mergeHead = None /\ conflicted = {})

\* C8: a record whose status is merged or dropped keeps that status for as
\* long as it is in the registry.
C8_TerminalStatus ==
    [][\A slug \in Slugs :
          StatusOf(storedTasks, slug) \in {"merged", "dropped"}
          => StatusOf(storedTasks', slug) \in {"none", StatusOf(storedTasks, slug)}]_vars

\* C9: addTask of a valid task whose slug is not stored succeeds (the write
\* succeeding) and getTask then returns an equal record; addTask of a task
\* whose slug is stored fails, with the duplicate-slug error when the task
\* is valid, and leaves the stored list unchanged.
C9_AddThenGet ==
    last.op = "addTask" =>
        /\ (validateTask(last.task) = "ok" /\ getTask(last.before, last.task.slug) = <<>>
              /\ last.io = "ok")
           => (last.err = "ok" /\ getTask(storedTasks, last.task.slug) = <<last.task>>)
        /\ getTask(last.before, last.task.slug) # <<>>
           => /\ last.err # "ok"
              /\ validateTask(last.task) = "ok" => last.err = ErrDuplicate
              /\ storedTasks = last.before

C9_Witness ==
    /\ last.op = "addTask"
    /\ last.err = ErrDuplicate
    /\ Len(storedTasks) = 2

\* C10: updateTask(slug, {status: 'merged'}) that succeeds changes the status
\* of the record with that slug and nothing else of the list; updateTask of
\* an absent slug fails with not-found and updateTask with another slug in
\* the update fails, both leaving the stored list unchanged.
C10_UpdateFrame ==
    last.op = "updateTask" =>
        /\ (last.updates = [status |-> "merged"] /\ getTask(last.before, last.slug) # <<>>
              /\ last.io = "ok")
           => /\ last.err = "ok"
              /\ Len(storedTasks) = Len(last.before)
              /\ \A i \in 1..Len(last.before) :
                    storedTasks[i] =
                        IF last.before[i].slug = last.slug
                        THEN [last.before[i] EXCEPT !.status = "merged"]
                        ELSE last.before[i]
        /\ getTask(last.before, last.slug) = <<>>
           => (last.err = ErrNotFound /\ storedTasks = last.before)
        /\ ("slug" \in DOMAIN last.updates /\ last.updates.slug # last.slug)
           => (last.err # "ok" /\ storedTasks = last.before)

C10_Witness ==
    /\ last.op = "updateTask"
    /\ last.updates = [status |-> "merged"]
    /\ last.err = "ok"
    /\ Len(storedTasks) = 2
    /\ storedTasks # last.before

\* the rules a stored record is to satisfy
WellFormedTask(task) ==
    /\ Len(task.slug) >= 1
    /\ \A i \in 1..Len(task.slug) : task.slug[i] \in SlugChars
    /\ task.description # ""
    /\ task.branch # <<>>
    /\ task.worktreePath # <<>>
    /\ task.createdAt # ""
    /\ task.status \in {"active", "merged", "dropped"}

\* C11: every stored record satisfies the validation rules; addTask of a
\* task that breaks one, and updateTask of a stored record whose merged
\* result breaks one, throw and leave the stored list as it was.
C11_RejectedBeforePersistence ==
    /\ \A i \in 1..Len(storedTasks) : WellFormedTask(storedTasks[i])
    /\ (last.op = "addTask" /\ ~WellFormedTask(last.task))
       => (last.err # "ok" /\ storedTasks = last.before)
    /\ (last.op = "updateTask" /\ getTask(last.before, last.slug) # <<>>
          /\ ~WellFormedTask(Spread(getTask(last.before, last.slug)[1], last.updates)))
       => (last.err # "ok" /\ storedTasks = last.before)

C11_Witness ==
    /\ last.op = "updateTask"
    /\ last.err = ErrStatus
    /\ Len(storedTasks) = 2
    /\ storedTasks = last.before

\* C15: every stored record has the branch and the worktree path derived
\* from its slug.
C15_BranchAndPathFromSlug ==
    \A i \in 1..Len(storedTasks) :
        /\ storedTasks[i].branch = BranchName(storedTasks[i].slug)
        /\ storedTasks[i].worktreePath = WorktreePath(storedTasks[i].slug)

\* C12: with one writer a read of the registry never fails and returns the
\* list the writer read or the list it writes: the list it read while the
\* write is under way (temp file opened, written or about to be renamed),
\* the new list once the operation has returned, one of the two after a
\* crash or a failed write, whatever is left of the temp file.
C12_ReadSeesOldOrNew ==
    LET r == readTasks(files)
        w == procs["p1"]
    IN  /\ r.err = "ok"
        /\ r.tasks \in {w.snapshot, w.new}
        /\ w.pc \in {"open", "write", "rename"} => r.tasks = w.snapshot
        /\ (w.pc = "idle" /\ w.ret = "ok") => r.tasks = w.new

C12_Witness ==
    /\ procs["p1"].ret = "crashed"
    /\ files[tempFile].exists
    /\ Len(files[tempFile].data) >= 1
    /\ JsonParse(files[tempFile].data).err # "ok"
    /\ readTasks(files).tasks = procs["p1"].snapshot
    /\ procs["p1"].snapshot # <<>>
    /\ procs["p1"].new # procs["p1"].snapshot

\* both processes have returned from an addTask, of different slugs, that
\* read the same list
BothAdded ==
    /\ \A p \in Procs :
          procs[p].op = "addTask" /\ procs[p].pc = "idle" /\ procs[p].ret = "ok"
    /\ procs["p1"].task.slug # procs["p2"].task.slug
    /\ procs["p1"].snapshot = procs["p2"].snapshot

\* C13: two addTask calls of different slugs that interleave, each reading
\* the list before the other has written, both return normally and the
\* document then holds the list of one of them, never both records.
C13_LostUpdate ==
    BothAdded =>
        LET r == readTasks(files)
        IN  r.err = "ok" =>
               /\ r.tasks \in {procs["p1"].new, procs["p2"].new}
               /\ \E p \in Procs : getTask(r.tasks, procs[p].task.slug) = <<>>

C13_Witness ==
    /\ BothAdded
    /\ readTasks(files).err = "ok"
    /\ Len(readTasks(files).tasks) = 1
    /\ procs["p1"].snapshot = <<>>

\* C14: no two records of the stored document share a slug, whatever the
\* interleaving of the operations of the two processes.
C14_SlugUnique ==
    LET r == readTasks(files)
    IN  r.err = "ok" =>
           \A i, j \in 1..Len(r.tasks) : r.tasks[i].slug = r.tasks[j].slug => i = j

\* C16: createWorktree(slug) called when the directory of the slug or the
\* branch hive/<slug> exists throws the already-exists error (that of the
\* directory when the directory exists) and creates no branch, no working
\* copy and no symlink.
C16_CreateRejectsExisting ==
    (last.op = "createWorktree" /\ (last.hadDir \/ last.hadBranch)) =>
        /\ last.err \in {ErrWorktreeExists, ErrBranchExists}
        /\ last.hadDir => last.err = ErrWorktreeExists
        /\ ~last.changed
        /\ last.symlinks = NoSymlinks
        /\ last.path = <<>>

C16_Witness ==
    /\ last.op = "createWorktree"
    /\ last.hadBranch
    /\ ~last.hadDir
    /\ last.err = ErrBranchExists
    /\ last.slug \in branches
    /\ last.slug \notin worktrees

\* C17: createWorktree(slug) that returns normally has created the branch
\* hive/<slug> and the working copy at <repoRoot>/<worktreeDir>/<slug>, for
\* the worktreeDir of the configuration.
C17_PathUnderWorktreeDir ==
    (last.op = "createWorktree" /\ last.err = "ok") =>
        /\ last.slug \in branches
        /\ last.path = <<RepoRoot, last.config.worktreeDir>> \o last.slug

\* C18: after createWorktree(slug) returned normally, a removeWorktree(slug)
\* that returns normally leaves no entry with that slug in listWorktrees()
\* and no directory for the slug.
C18_CreateThenRemove ==
    (last.op = "removeWorktree" /\ last.afterCreate /\ last.err = "ok") =>
        /\ \A w \in listWorktrees : w.slug # last.slug
        /\ last.slug \notin worktrees

BranchExists(name) ==
    name \in repo.local \/ \E rb \in repo.remoteBranches : rb[2] = name

C20_DefaultBranch ==
    (last.op = "getDefaultBranch" /\ last.err = "ok" /\ last.ioRemote = "ok") =>
        /\ "main" \in repo.local => last.branch = "main"
        /\ (~BranchExists("main") /\ "master" \in repo.local)
              => last.branch = "master"
        /\ (~BranchExists("main") /\ ~BranchExists("master"))
              => last.branch = repo.current

\* C21: getDiffStats of a task branch with no commits beyond the base
\* reports no file, no insertion and no deletion, also when the base has
\* received commits since the branch forked or the working copy holds
\* uncommitted edits.
C21_NoCommitsNoStats ==
    (last.op = "getDiffStats" /\ last.err = "ok" /\ commits[last.slug] = {}) =>
        /\ last.stats.totalFiles = 0
        /\ last.stats.totalInsertions = 0
        /\ last.stats.totalDeletions = 0

\* C22: createSymlinks never fails createWorktree (a createWorktree that
\* threw its failure has created nothing), every candidate is reported as
\* created or skipped, and a candidate on which the size computation or the
\* link creation fails is reported as skipped.
Candidates == Range(dirsToSymlink(last.config.customSymlinks))

SharingTried ==
    last.op = "createWorktree" /\ last.config.autoSymlink /\ last.err = "ok"

C22_SharingNeverFails ==
    /\ (last.op = "createWorktree" /\ last.err = ErrCreateWorktree) => ~last.changed
    /\ SharingTried =>
          \A dir \in Candidates :
              /\ dir \in Range(last.symlinks.created) \cup Range(last.symlinks.skipped)
              /\ (dir \in repo.sources \ repo.tracked
                    /\ dir \in repo.dangling \cup repo.unsized)
                 => dir \in Range(last.symlinks.skipped)

\* C23: every candidate directory (those of each signature whose marker
\* is present or whose marker list is empty, and the configured extras) is
\* reported exactly once, in created or in skipped, and nothing else is
\* reported; a directory in created had its source in the main working copy
\* and nothing at its destination; savedBytes is the sum of the sizes
\* computed for the created directories.
CandidateSet ==
    Range(last.config.customSymlinks) \cup
    { d \in UNION { Range(PROJECT_DETECTORS[n].symlinks) : n \in DOMAIN PROJECT_DETECTORS } :
        \E n \in DOMAIN PROJECT_DETECTORS :
            /\ d \in Range(PROJECT_DETECTORS[n].symlinks)
            /\ \/ PROJECT_DETECTORS[n].files = {}
               \/ PROJECT_DETECTORS[n].files \cap repo.markers # {} }

Reports(dir) ==
    LET all == last.symlinks.created \o last.symlinks.skipped
    IN  Cardinality({k \in 1..Len(all) : all[k] = dir})

RECURSIVE SizeSum(_)
SizeSum(dirs) == IF dirs = <<>> THEN 0 ELSE getDirSize(Head(dirs)) + SizeSum(Tail(dirs))

C23_CreatedOrSkipped ==
    SharingTried =>
        /\ \A dir \in CandidateSet : Reports(dir) = 1
        /\ Range(last.symlinks.created) \cup Range(last.symlinks.skipped) = CandidateSet
        /\ \A dir \in Range(last.symlinks.created) :
              dir \in repo.sources /\ dir \notin repo.tracked \cup repo.dangling
        /\ last.symlinks.savedBytes = SizeSum(last.symlinks.created)

C23_Witness ==
    /\ SharingTried
    /\ "pom.xml" \in repo.markers
    /\ last.config.customSymlinks # <<>>
    /\ Len(last.symlinks.created) > 1
    /\ "build" \in repo.tracked
    /\ "build" \in Range(last.symlinks.skipped)
    /\ last.symlinks.savedBytes > 1

\* C24: getOverlappingFiles returns exactly one record for each path in the
\* changed files of at least two tasks with distinct slugs, the record
\* listing exactly the slugs of the tasks touching the path, each once, and
\* no record for a path touched by the tasks of one slug only.
Touching(path) ==
    { args.taskAnalyses[i].task.slug : i \in
        { n \in 1..Len(args.taskAnalyses) :
            \E f \in 1..Len(args.taskAnalyses[n].files) :
                args.taskAnalyses[n].files[f].path = path } }

RecordsOf(path) == {k \in 1..Len(last.overlaps) : last.overlaps[k].file = path}

C24_OverlapRecords ==
    last.op = "getOverlappingFiles" =>
        \A path \in AnalysisPaths :
            IF Cardinality(Touching(path)) >= 2
            THEN /\ Cardinality(RecordsOf(path)) = 1
                 /\ \A k \in RecordsOf(path) :
                       /\ Range(last.overlaps[k].tasks) = Touching(path)
                       /\ Len(last.overlaps[k].tasks) = Cardinality(Touching(path))
            ELSE RecordsOf(path) = {}

C24_Witness ==
    /\ last.op = "getOverlappingFiles"
    /\ args.taskAnalyses =
          << [task |-> [slug |-> <<"a">>], files |-> <<[path |-> "x.ts"], [path |-> "y.ts"]>>],
             [task |-> [slug |-> <<"b">>], files |-> <<[path |-> "y.ts"], [path |-> "z.ts"]>>] >>
    /\ last.overlaps = << [file |-> "y.ts", tasks |-> << <<"a">>, <<"b">> >>] >>

\* C25: for a diff in git's format, each changed file of a task is
\* classified as added when it is a new file, as deleted when it is a
\* deleted file, and as modified otherwise.
C25_ChangeTypes ==
    last.op = "getTaskDiffAnalysis" =>
        \A k \in 1..Len(args.changes) :
            /\ last.files[k].path = args.changes[k].path
            /\ last.files[k].type = args.changes[k].type

\* C26: the drop command without --force, for a task whose working copy
\* had uncommitted changes when the command checked it, calls removeWorktree
\* only after the user typed the slug, whatever the outcome of the check;
\* with --force it never prompts.
C26_DropAsksFirst ==
    cmd.name = "drop" =>
        /\ (~cmd.force /\ cmd.dirtyAtCheck = "dirty"
              /\ "removeWorktree" \in Range(cmd.calls)) => cmd.confirmed
        /\ cmd.force => (~cmd.prompted /\ cmd.status # "confirming")

\* C27: a working copy whose registry insert failed (a working copy with
\* no record) is removed by the drop command run for its slug, and by the
\* clean command run with --force, unless removeWorktree itself failed.
Orphans(before) == before.worktrees \ SlugsOf(before.tasks)

C27_OrphanCleanedUp ==
    /\ (cmd.name = "drop" /\ cmd.pc = "final"
          /\ cmd.before.worktree /\ ~cmd.before.recorded)
       => (cmd.task \notin worktrees \/ cmd.error = ErrRemoveWorktree)
    /\ (cmd.name = "clean" /\ cmd.status = "done" /\ cmd.force /\ ~cmd.dryRun)
       => Orphans(cmd.before) \cap worktrees = {}

\* C30: the clean command with --dry-run calls neither removeWorktree nor
\* removeTask, whatever --force and the stale tasks found, and when it is
\* done the registry, the working copies and the branches are those it
\* started with.
C30_DryRunRemovesNothing ==
    (cmd.name = "clean" /\ cmd.dryRun) =>
        /\ cmd.calls = <<>>
        /\ cmd.status \notin {"cleaning", "confirming"}
        /\ cmd.status = "done" =>
              /\ storedTasks = cmd.before.tasks
              /\ worktrees = cmd.before.worktrees
              /\ branches = cmd.before.branches

C30_Witness ==
    /\ cmd.name = "clean"
    /\ cmd.dryRun
    /\ cmd.force
    /\ cmd.status = "done"
    /\ Len(cmd.staleTasks) = 2
    /\ SlugsOf(cmd.staleTasks) \subseteq worktrees

-----------------------------------------------------------------------------
(* C28: for every non-empty description, the slug generateSlug returns is a
   non-empty string of lower-case letters, digits and hyphens, is at most 50
   characters long, and, when the slug before truncation is longer than 50
   characters and has a hyphen among its first 50, is that slug cut right
   before one of its hyphens, so that it ends with a whole word. *)

CutAtHyphen(out, slug) ==
    \E k \in 1..MaxSlugLength :
        /\ out = SubSeq(slug, 1, k)
        /\ slug[k] # "-"
        /\ slug[k + 1] = "-"

C28_SlugContract ==
    (last.op = "generateSlug" /\ last.description # <<>>) =>
        LET slug == slugifyLib(last.description)
        IN  /\ last.slug # <<>>
            /\ Range(last.slug) \subseteq SlugChars
            /\ Len(last.slug) <= MaxSlugLength
            /\ (Len(slug) > MaxSlugLength
                  /\ "-" \in Range(SubSeq(slug, 1, MaxSlugLength)))
               => CutAtHyphen(last.slug, slug)

-----------------------------------------------------------------------------
(* C29: the drop of the interactive view (key d on the selected task) never
   removes a worktree that has uncommitted changes, nor the record of its
   task: the view has no confirmation for a drop, so none can have been
   given. *)

C29_InteractiveDropAsks ==
    [][HandleDropTask =>
          \A slug \in dirty \cap worktrees :
              /\ slug \in worktrees'
              /\ StatusOf(storedTasks', slug) = StatusOf(storedTasks, slug)]_vars

-----------------------------------------------------------------------------
(* C31: a record whose working copy is gone is removed from the registry by
   drop --force run for its slug, and by clean --force (without --dry-run)
   that finds its task stale, unless the registry write itself failed. *)

C31_RecordWithoutWorktreeRemoved ==
    /\ (cmd.name = "drop" /\ cmd.force /\ cmd.pc = "final"
          /\ cmd.before.recorded /\ ~cmd.before.worktree)
       => (getTask(storedTasks, cmd.task) = <<>> \/ cmd.error = ErrWrite)
    /\ (cmd.name = "clean" /\ cmd.status = "done" /\ cmd.force /\ ~cmd.dryRun)
       => \A slug \in SlugsOf(cmd.staleTasks) \ cmd.before.worktrees :
              \/ getTask(storedTasks, slug) = <<>>
              \/ "removeTask" \in Range(cmd.calls)

-----------------------------------------------------------------------------
(* C32: when handleMerge has caught an error and the merge command is in
   its error state, the command has committed nothing: the registry still
   holds status active for the task, mergeBranch has not merged the task's
   branch into the target branch, and the task's worktree still exists. *)

C32_ErrorCommitsNothing ==
    (mc.status = "error" /\ mc.pc = "final" /\ mc.thrown # "") =>
        /\ StatusOf(storedTasks, mc.task) = "active"
        /\ mc.result # "success"
        /\ mc.task \in worktrees

-----------------------------------------------------------------------------
(* C33: at the step in which the merge command calls mergeBranch, and at
   the step in which it sets the status to merged, the task is active in
   the registry and its worktree has no uncommitted changes, whatever
   happened while the confirmation prompt was displayed. *)

C33_PreconditionsAtMerge ==
    [][((mc.pc = "mergeBranch" /\ mc'.pc # "mergeBranch")
          \/ (mc.pc = "updateTask" /\ StatusOf(storedTasks', mc.task) = "merged"))
       => /\ StatusOf(storedTasks, mc.task) = "active"
          /\ mc.task \notin dirty]_vars

-----------------------------------------------------------------------------
(* C34: the abortMerge call of the merge command's error path leaves alone
   a merge that is in progress in the main working copy for another task:
   such a merge was not started by this command. *)

C34_AbortOnlyOwnMerge ==
    [][(mc.pc = "abortMerge" /\ mergeHead # None /\ mergeHead # mc.task)
       => (mergeHead' = mergeHead /\ conflicted' = conflicted)]_vars

-----------------------------------------------------------------------------
(* C35: when mergeBranch(slug) returns {success: false, conflicts}, the
   conflicts are the files that conflict in merging hive/<slug> into the
   target, and the merge left in progress is that of hive/<slug>: files
   left conflicted by an earlier merge of another task are not reported,
   and a merge that git refused for another reason is not reported so. *)

C35_ConflictsOfThisMerge ==
    [][(mc.pc = "mergeBranch" /\ mc'.result = "conflict")
       => /\ mc'.conflicts = ConflictsOf(mc.task)
          /\ mergeHead = None
          /\ mergeHead' = mc.task]_vars

-----------------------------------------------------------------------------
(* C36: for every task that has a worktree, the task called main included,
   the entry the slug-addressed operations find for its slug is the task's
   own worktree with the branch hive/<slug>, and a mergeBranch(slug) that
   reports success has merged the branch hive/<slug>. *)

C36_OwnWorktreeAndBranch ==
    /\ \A slug \in worktrees :
          /\ findWorktreeEntry(slug).path = WorktreePath(slug)
          /\ findWorktreeEntry(slug).branch = BranchName(slug)
    /\ (last.op = "mergeBranch" /\ last.success) => last.slug \in mergedInto

-----------------------------------------------------------------------------
(* C37: a step that creates a worktree for a slug whose record in the
   registry is that of a merged task leaves an active record for the slug
   in the registry: creating the task either fails without a worktree or
   succeeds with its record. *)

C37_RecreateMergedTask ==
    [][\A slug \in Slugs :
          (StatusOf(storedTasks, slug) = "merged"
             /\ slug \notin worktrees /\ slug \in worktrees')
          => StatusOf(storedTasks', slug) = "active"]_vars

-----------------------------------------------------------------------------
(* C38: when every call of git and of the file system succeeds and no
   command is cut short, then whenever no command is running every record
   with status active has its worktree and its branch hive/<slug>. *)

C38_ActiveHasWorktree ==
    Idle =>
        \A i \in 1..Len(storedTasks) :
            storedTasks[i].status = "active"
            => /\ storedTasks[i].slug \in worktrees
               /\ storedTasks[i].slug \in branches
               /\ storedTasks[i].worktreePath = WorktreePath(storedTasks[i].slug)
               /\ storedTasks[i].branch = BranchName(storedTasks[i].slug)

C38_Witness ==
    /\ Idle
    /\ Len(storedTasks) = 2
    /\ storedTasks[1].status = "merged"
    /\ storedTasks[1].slug \notin worktrees
    /\ storedTasks[2].status = "active"
    /\ storedTasks[2].slug \in worktrees

-----------------------------------------------------------------------------
(* C39: with two processes writing the registry, the rename of a process
   that returns normally publishes the document this process wrote.  (The
   stored document changes in renames only, so an operation that throws
   has then published nothing.) *)

C39_RenamePublishesOwnWrite ==
    [][\A p \in Procs :
          (procs[p].pc = "rename" /\ procs'[p].pc = "idle" /\ procs'[p].ret = "ok")
          => files'[TASKS_FILE] = File(Stringify(procs[p].new))]_vars

====
